---------------------------- MODULE Spec2Model ----------------------------
(***************************************************************************)
(* A model of the AI gateway service (unified-ai.service.js, kept here as  *)
(* src/unnamed/part_008): the streaming response parser                    *)
(* (processStreamingResponse / processLine), the tool execution loop       *)
(* (executeToolCalls) and the token budgeter (adjustContent /              *)
(* estimateTokens).                                                        *)
(*                                                                         *)
(* Text is a sequence of one-character strings.  A byte stream is a        *)
(* sequence of bytes; every ASCII byte is written as its character, and    *)
(* the two bytes of the UTF-8 encoding of U+00E9 are LeadByte, ContByte.   *)
(***************************************************************************)
EXTENDS Integers, Sequences, FiniteSets, TLC

VARIABLES
    \* ---- one processStreamingResponse call ----
    wire,           \* the byte sequence the provider sends on this stream
    pos,            \* number of bytes of wire already delivered in 'data' events
    nchunks,        \* number of 'data' events delivered so far
    provider,       \* the provider argument
    decoder,        \* StringDecoder state: bytes of an incomplete character
    buffers,        \* buffers[provider]: the partial-unit buffer (line 363)
    fullMessage,    \* the accumulated message (line 372)
    sse,            \* the events passed to sendSSE, in order
    onComplete,     \* the arguments of the onComplete calls, in order
    streamState,    \* "open", "ended" (promise resolved), "errored" (rejected)
    \* ---- one executeToolCalls call ----
    toolCalls,      \* the toolCalls argument
    availableTools, \* the availableTools argument
    context,        \* the context argument (JNull when it is not given)
    callIdx,        \* number of calls the for loop has gone through
    results,        \* the results array
    executions,     \* the executor invocations made so far, in order
    toolState,      \* "running", "returned", "threw"
    \* ---- one adjustContent call ----
    given,          \* the arguments as passed: [system, history, prompt]
    contextWindow,  \* the contextWindow argument
    estimator,      \* how promptTokensEstimate behaves on these messages
    system,         \* the local system
    history,        \* the history array (trimmed in place)
    prompt,         \* the local prompt
    currentTokens,  \* the local currentTokens
    pc,             \* where the call is: "enter", "history", "prompt", "done"
    \* ---- one sendMessage call ----
    data,           \* the data argument
    env,            \* process.env credentials and the message store
    spc,            \* where the call is: "enter", "await", "awaitExtract",
                    \* "returned", "threw"
    locals,         \* the locals of the call that outlive an await (of them
                    \* updates is contextResponse, line 293)
    vendor,         \* whether the provider answers the pending request
    http,           \* the axios.post calls issued so far, in order
    writes,         \* the PrimateService.create calls made so far, in order
    thrown,         \* the message of the error thrown to the caller
    returned,       \* the value returned to the caller
    \* ---- one handleAiMessage turn ----
    body,           \* req.body
    tpc,            \* where the turn is: "enter", "awaitToolCheck",
                    \* "awaitStream", "streaming", "awaitExtract", "closed"
    turn,           \* the locals of the turn that outlive an await
    ended,          \* number of res.end() calls
    errors,         \* the failures logged with logger.error, in order
    \* ---- two processStreamingResponse calls at once ----
    pair            \* the two calls, and whose 'data' events came in what order

streamVars == <<wire, pos, nchunks, provider, decoder, buffers, fullMessage,
                sse, onComplete, streamState>>

toolVars == <<toolCalls, availableTools, context, callIdx, results, executions,
              toolState>>

adjustVars == <<given, contextWindow, estimator, system, history, prompt,
                currentTokens, pc>>

sendVars == <<data, env, spc, locals, vendor, http, writes, thrown, returned>>

turnVars == <<body, tpc, turn, ended, errors>>

pairVars == <<pair>>

vars == <<streamVars, toolVars, adjustVars, sendVars, turnVars, pairVars>>

-----------------------------------------------------------------------------
(* Bounds of the model *)

\* at most this many 'data' events deliver one stream
MaxChunks == 3

\* at most this many tool calls in one executeToolCalls call
MaxCalls == 3

\* at most this many messages in the history given to adjustContent
MaxHistory == 3

-----------------------------------------------------------------------------
(* Text helpers *)

Q == "\""
Replacement == "U+FFFD"
LeadByte == "0xC3"
ContByte == "0xA9"
EAcute == "U+00E9"

\* String.prototype.trim strips these (of the characters that occur here)
WhiteSpace == {" ", "\t", "\r", "\n"}

RECURSIVE SkipWs(_, _)
SkipWs(s, i) ==
    IF i <= Len(s) /\ s[i] \in WhiteSpace THEN SkipWs(s, i + 1) ELSE i

RECURSIVE SkipWsBack(_, _)
SkipWsBack(s, j) ==
    IF j >= 1 /\ s[j] \in WhiteSpace THEN SkipWsBack(s, j - 1) ELSE j

\* s.trim()
Trim(s) == SubSeq(s, SkipWs(s, 1), SkipWsBack(s, Len(s)))

\* s.startsWith(p)
StartsWith(s, p) == Len(s) >= Len(p) /\ SubSeq(s, 1, Len(p)) = p

\* s.substring(n)   (n characters dropped)
Substring(s, n) == SubSeq(s, n + 1, Len(s))

\* the positions of the newlines of s, and the position of the k-th one
\* (0 before the first, Len(s) + 1 after the last)
Newlines(s) == {i \in 1 .. Len(s) : s[i] = "\n"}
Newline(s, k) ==
    IF k = 0 THEN 0
    ELSE IF k > Cardinality(Newlines(s)) THEN Len(s) + 1
    ELSE CHOOSE i \in Newlines(s) : Cardinality({j \in Newlines(s) : j < i}) = k - 1

\* s.split('\n'): the pieces between the newlines, empty pieces included
Split(s) ==
    [k \in 1 .. Cardinality(Newlines(s)) + 1 |->
        SubSeq(s, Newline(s, k - 1) + 1, Newline(s, k) - 1)]

-----------------------------------------------------------------------------
(* StringDecoder('utf8'): write() returns the complete characters and keeps *)
(* the bytes of an incomplete one; end() flushes an incomplete character as *)
(* U+FFFD.                                                                  *)

\* what the byte at position i of bytes decodes to: the character of a
\* complete two-byte sequence at its lead byte, NoChar at its continuation
\* byte and at a lead byte that ends the input, U+FFFD for a byte that is in
\* no complete sequence
NoChar == ""
DecodedAt(bytes, i) ==
    IF bytes[i] = LeadByte THEN
        IF i = Len(bytes) THEN NoChar
        ELSE IF bytes[i + 1] = ContByte THEN EAcute ELSE Replacement
    ELSE IF bytes[i] = ContByte THEN
        IF i > 1 /\ bytes[i - 1] = LeadByte THEN NoChar ELSE Replacement
    ELSE bytes[i]

IsChar(c) == c # NoChar

Decode(bytes) ==
    [text    |-> SelectSeq([i \in 1 .. Len(bytes) |-> DecodedAt(bytes, i)], IsChar),
     pending |-> IF bytes # <<>> /\ bytes[Len(bytes)] = LeadByte
                 THEN <<LeadByte>> ELSE <<>>]

\* decoder.write(chunk)
DecoderWrite(pending, chunk) == Decode(pending \o chunk)

\* decoder.end()
DecoderEnd(pending) == IF pending = <<>> THEN <<>> ELSE <<Replacement>>

-----------------------------------------------------------------------------
(* JSON.parse on the texts that occur here: objects, arrays, strings        *)
(* without escapes and the literals null and true, with white space between *)
(* tokens.  (Number and false tokens and backslash escapes need characters  *)
(* that no modelled stream or argument payload contains.)                   *)
(* A value is [t |-> "obj", m |-> <<[k |-> key, v |-> value], ...>>],       *)
(* [t |-> "arr", a |-> <<value, ...>>], [t |-> "str", s |-> text] or        *)
(* [t |-> "null"] or [t |-> "true"].  A parse step returns [ok, v, i]: i is *)
(* the index after the value.                                               *)

JNull == [t |-> "null"]
JTrue == [t |-> "true"]
JStr(s) == [t |-> "str", s |-> s]
JArr(a) == [t |-> "arr", a |-> a]
JObj(m) == [t |-> "obj", m |-> m]
ParseFail == [ok |-> FALSE, v |-> JNull, i |-> 0]
ParseOk(v, i) == [ok |-> TRUE, v |-> v, i |-> i]

\* index of the quote closing the string whose first character is at i; 0 if none
RECURSIVE ClosingQuote(_, _)
ClosingQuote(s, i) ==
    IF i > Len(s) THEN 0
    ELSE IF s[i] = Q THEN i
    ELSE ClosingQuote(s, i + 1)

\* s[i] is an opening quote
ParseString(s, i) ==
    LET j == ClosingQuote(s, i + 1)
    IN  IF j = 0 THEN ParseFail ELSE ParseOk(JStr(SubSeq(s, i + 1, j - 1)), j + 1)

RECURSIVE ParseValue(_, _), ParseMembers(_, _, _), ParseElements(_, _, _)

\* the value starting at i (white space before it already skipped)
ParseValue(s, i) ==
    IF i > Len(s) THEN ParseFail
    ELSE IF s[i] = "{" THEN
        LET j == SkipWs(s, i + 1)
        IN  IF j <= Len(s) /\ s[j] = "}" THEN ParseOk(JObj(<<>>), j + 1)
            ELSE ParseMembers(s, j, <<>>)
    ELSE IF s[i] = "[" THEN
        LET j == SkipWs(s, i + 1)
        IN  IF j <= Len(s) /\ s[j] = "]" THEN ParseOk(JArr(<<>>), j + 1)
            ELSE ParseElements(s, j, <<>>)
    ELSE IF s[i] = Q THEN ParseString(s, i)
    ELSE IF i + 3 <= Len(s) /\ SubSeq(s, i, i + 3) = <<"n", "u", "l", "l">>
         THEN ParseOk(JNull, i + 4)
    ELSE IF i + 3 <= Len(s) /\ SubSeq(s, i, i + 3) = <<"t", "r", "u", "e">>
         THEN ParseOk(JTrue, i + 4)
    ELSE ParseFail

\* "key" : value , ... }   with the first key expected at i
ParseMembers(s, i, acc) ==
    IF i > Len(s) \/ s[i] # Q THEN ParseFail
    ELSE LET key == ParseString(s, i)
             c   == SkipWs(s, key.i)
         IN  IF ~key.ok \/ c > Len(s) \/ s[c] # ":" THEN ParseFail
             ELSE LET val == ParseValue(s, SkipWs(s, c + 1))
                      e   == SkipWs(s, val.i)
                      mem == Append(acc, [k |-> key.v.s, v |-> val.v])
                  IN  IF ~val.ok \/ e > Len(s) THEN ParseFail
                      ELSE IF s[e] = "}" THEN ParseOk(JObj(mem), e + 1)
                      ELSE IF s[e] = "," THEN ParseMembers(s, SkipWs(s, e + 1), mem)
                      ELSE ParseFail

\* value , ... ]   with the first value expected at i
ParseElements(s, i, acc) ==
    LET val == ParseValue(s, i)
        e   == SkipWs(s, val.i)
        els == Append(acc, val.v)
    IN  IF ~val.ok \/ e > Len(s) THEN ParseFail
        ELSE IF s[e] = "]" THEN ParseOk(JArr(els), e + 1)
        ELSE IF s[e] = "," THEN ParseElements(s, SkipWs(s, e + 1), els)
        ELSE ParseFail

\* JSON.parse(text): [ok |-> FALSE] stands for the SyntaxError it throws
JsonParse(text) ==
    LET r == ParseValue(text, SkipWs(text, 1))
    IN  IF r.ok /\ SkipWs(text, r.i) > Len(text) THEN r ELSE ParseFail

\* obj[key] of a parsed object (the last duplicate wins); JNull stands for
\* undefined and null alike, which ?. and || treat alike
RECURSIVE MemberFrom(_, _, _)
MemberFrom(m, key, n) ==
    IF n = 0 THEN JNull
    ELSE IF m[n].k = key THEN m[n].v
    ELSE MemberFrom(m, key, n - 1)

Member(v, key) == IF v.t = "obj" THEN MemberFrom(v.m, key, Len(v.m)) ELSE JNull

\* v?.[0]   (the first character of a string has no property read below)
First(v) == IF v.t = "arr" /\ Len(v.a) > 0 THEN v.a[1] ELSE JNull

KeyChoices == <<"c", "h", "o", "i", "c", "e", "s">>
KeyDelta == <<"d", "e", "l", "t", "a">>
KeyContent == <<"c", "o", "n", "t", "e", "n", "t">>

\* text of a content value: the modelled payloads carry string content only
TextOf(c) == IF c.t = "str" THEN c.s ELSE <<>>

\* parsedData.choices?.[0]?.delta?.content || ''   for parsedData other than
\* null (reading .choices of null throws a TypeError)
DeltaContent(parsedData) ==
    TextOf(Member(Member(First(Member(parsedData, KeyChoices)), KeyDelta), KeyContent))

-----------------------------------------------------------------------------
(* The stream parser: processLine and the handlers of                       *)
(* processStreamingResponse.                                                *)

Providers == {"openai", "google", "perplexity", "groq", "openrouter"}

\* 'data: ' and '[DONE]'
dataPrefix == <<"d", "a", "t", "a", ":", " ">>
Sentinel == <<"[", "D", "O", "N", "E", "]">>

\* The event objects given to sendSSE, with the fields the code gives them
ContentEvent(p, content) == [type |-> p, data |-> [content |-> content]]
SentinelEvent == [type |-> "complete", message |-> "Stream complete"]
FinishedEvent(full, tr) ==
    [type |-> "complete", message |-> "Provider finished",
     fullMessage |-> full, toolResults |-> tr]
ErrorEvent(p, msg) == [type |-> p, error |-> msg]

\* the default of the toolResults parameter: {}
NoToolResults == <<>>

\* what processLine hands back: the events it sent, the content chunk it
\* returns (<<>> for null) and the buffers it leaves
LineResult(events, chunk, bufs) ==
    [sse |-> events, contentChunk |-> chunk, buffers |-> bufs]

\* if(content) { sendSSE({ type: provider, data: { content } }); contentChunk = content; }
EmitContent(content, p, bufs) ==
    IF content # <<>>
    THEN LineResult(<<ContentEvent(p, content)>>, content, bufs)
    ELSE LineResult(<<>>, <<>>, bufs)

\* lines 454-460, given the outcome of JSON.parse(buffers[provider]): the
\* buffer is cleared before the content is read, so it is cleared also when
\* that read throws
RetryParsed(again, buf, p, bufs) ==
    IF ~again.ok THEN LineResult(<<>>, <<>>, [bufs EXCEPT ![p] = buf])
    ELSE IF again.v.t = "null" THEN LineResult(<<>>, <<>>, [bufs EXCEPT ![p] = <<>>])
    ELSE EmitContent(DeltaContent(again.v), p, [bufs EXCEPT ![p] = <<>>])

\* the catch block of lines 450-464: buffers[provider] += actualLine, then
\* the buffer is parsed as a whole
BufferAndRetry(buf, p, bufs) == RetryParsed(JsonParse(buf), buf, p, bufs)

\* lines 443-449, given the outcome of JSON.parse(actualLine)
FirstParsed(parsed, actualLine, p, bufs) ==
    IF parsed.ok /\ parsed.v.t # "null"
    THEN EmitContent(DeltaContent(parsed.v), p, bufs)
    ELSE BufferAndRetry(bufs[p] \o actualLine, p, bufs)

\* processLine once the 'data: ' prefix is removed (lines 436-473)
ProcessActualLine(actualLine, p, bufs) ==
    IF Trim(actualLine) = Sentinel THEN LineResult(<<SentinelEvent>>, <<>>, bufs)
    ELSE IF p \in {"openai", "openrouter"}
    THEN FirstParsed(JsonParse(actualLine), actualLine, p, bufs)
    ELSE LineResult(<<>>, <<>>, bufs)

\* processLine(line, provider, buffers, sendSSE)
processLine(line, p, bufs) ==
    ProcessActualLine(IF StartsWith(line, dataPrefix)
                      THEN Substring(line, Len(dataPrefix)) ELSE line, p, bufs)

\* the state the handlers of one call share
StreamLocalsOf(dec, bufs, full, events) ==
    [decoder |-> dec, buffers |-> bufs, fullMessage |-> full, sse |-> events]

\* if(contentChunk) fullMessage += contentChunk, after one processLine call
AfterLine(r, st) ==
    StreamLocalsOf(st.decoder, r.buffers, st.fullMessage \o r.contentChunk,
                   st.sse \o r.sse)

\* lines.forEach(...) of the data and end handlers, from line k on
RECURSIVE ForEachLine(_, _, _, _)
ForEachLine(lines, k, p, st) ==
    IF k > Len(lines) THEN st
    ELSE IF Trim(lines[k]) = <<>> THEN ForEachLine(lines, k + 1, p, st)
    ELSE ForEachLine(lines, k + 1, p, AfterLine(processLine(lines[k], p, st.buffers), st))

\* the handlers' common part, given what the decoder returned
HandleDecoded(d, p, st) ==
    ForEachLine(Split(d.text), 1, p,
                StreamLocalsOf(d.pending, st.buffers, st.fullMessage, st.sse))

\* stream.on('data')
DataHandler(chunk, p, st) == HandleDecoded(DecoderWrite(st.decoder, chunk), p, st)

\* the complete event of the end handler (lines 406-411)
Finish(st) ==
    StreamLocalsOf(st.decoder, st.buffers, st.fullMessage,
                   Append(st.sse, FinishedEvent(st.fullMessage, NoToolResults)))

\* stream.on('end'), up to the complete event it sends; decoder.end()
\* returns the text of an incomplete character, or ''
EndHandler(p, st) ==
    Finish(HandleDecoded([text |-> DecoderEnd(st.decoder), pending |-> <<>>], p, st))

\* the locals of a fresh processStreamingResponse call (lines 362-372)
FreshStream == StreamLocalsOf(<<>>, [q \in Providers |-> <<>>], <<>>, <<>>)

-----------------------------------------------------------------------------
(* The byte streams a provider sends in the model.  Unit(c) is one          *)
(* openai/openrouter unit whose delta carries the content c.                *)

UnitHead ==
    <<"{", Q>> \o KeyChoices \o <<Q, ":", "[", "{", Q>> \o KeyDelta \o <<Q, ":">>
UnitBody(c) == <<"{", Q>> \o KeyContent \o <<Q, ":", Q>> \o c \o <<Q, "}">>
UnitTail == <<"}", "]", "}">>
Unit(c) == UnitHead \o UnitBody(c) \o UnitTail

\* a unit whose delta has no content (the role announcement of a stream)
RoleUnit == UnitHead \o <<"{", "}">> \o UnitTail

\* a line that is no JSON text and no prefix of one
BadLine == <<"{", "]">>

NullLine == <<"n", "u", "l", "l">>

\* 'data: <payload>\n'
Frame(payload) == dataPrefix \o payload \o <<"\n">>

\* a unit sent on two lines, broken between its head and the rest
BrokenFrame(c) == dataPrefix \o UnitHead \o <<"\n">> \o UnitBody(c) \o UnitTail \o <<"\n">>

WireTwoUnits == Frame(Unit(<<"a">>)) \o <<"\n">> \o Frame(Unit(<<"b">>)) \o Frame(Sentinel)
WireAfterDone == Frame(Unit(<<"a">>)) \o Frame(Sentinel) \o Frame(Unit(<<"b">>))
WireBadThenUnits == Frame(BadLine) \o Frame(Unit(<<"b">>)) \o BrokenFrame(<<"a">>)
WireBroken == BrokenFrame(<<"a">>) \o Frame(Sentinel)
WireAccent == Frame(RoleUnit) \o Frame(Unit(<<LeadByte, ContByte>>)) \o Frame(NullLine)
WireTruncated == Frame(Unit(<<"a">>)) \o <<LeadByte>>
WireBadThenWhole == Frame(BadLine) \o Frame(Unit(<<"a">>))

\* a unit of the google stream whose first candidate carries the text c:
\* {"candidates":[{"content":{"parts":[{"text":c}]}}]}
GoogleUnit(c) ==
    <<"{", Q, "c", "a", "n", "d", "i", "d", "a", "t", "e", "s", Q, ":", "[", "{", Q>>
        \o KeyContent \o <<Q, ":", "{", Q, "p", "a", "r", "t", "s", Q, ":", "[", "{", Q,
                            "t", "e", "x", "t", Q, ":", Q>>
        \o c \o <<Q, "}", "]", "}", "}", "]", "}">>

WireGoogle == Frame(GoogleUnit(<<"a">>))

Streams == {WireTwoUnits, WireAfterDone, WireBadThenUnits, WireBroken,
            WireAccent, WireTruncated, WireBadThenWhole, WireGoogle}

-----------------------------------------------------------------------------
(* One processStreamingResponse call as a state machine *)

StreamLocals == StreamLocalsOf(decoder, buffers, fullMessage, sse)

StreamInit ==
    /\ body = <<>> /\ tpc = "idle" /\ turn = <<>> /\ ended = 0 /\ errors = <<>>
    /\ pair = <<>>
    /\ data = <<>> /\ env = <<>> /\ spc = "idle" /\ locals = <<>> /\ vendor = "none"
    /\ http = <<>> /\ writes = <<>> /\ thrown = <<>> /\ returned = <<>>
    /\ toolCalls = <<>> /\ availableTools = <<>> /\ context = JNull
    /\ callIdx = 0 /\ results = <<>> /\ executions = <<>> /\ toolState = "idle"
    /\ given = <<>> /\ contextWindow = 0 /\ estimator = "none" /\ system = <<>>
    /\ history = <<>> /\ prompt = <<>> /\ currentTokens = 0 /\ pc = "idle"
    /\ wire \in Streams
    /\ provider \in Providers
    /\ pos = 0
    /\ nchunks = 0
    /\ decoder = FreshStream.decoder
    /\ buffers = FreshStream.buffers
    /\ fullMessage = FreshStream.fullMessage
    /\ sse = FreshStream.sse
    /\ onComplete = <<>>
    /\ streamState = "open"

\* a 'data' event with the next n bytes; the last chunk the bound allows
\* carries all the bytes left
StreamData ==
    /\ streamState = "open"
    /\ nchunks < MaxChunks
    /\ \E n \in 1 .. (Len(wire) - pos) :
        /\ nchunks + 1 = MaxChunks => pos + n = Len(wire)
        /\ \E r \in {DataHandler(SubSeq(wire, pos + 1, pos + n), provider, StreamLocals)} :
               /\ decoder' = r.decoder
               /\ buffers' = r.buffers
               /\ fullMessage' = r.fullMessage
               /\ sse' = r.sse
        /\ pos' = pos + n
    /\ nchunks' = nchunks + 1
    /\ UNCHANGED <<wire, provider, onComplete, streamState,
                   toolVars, adjustVars, sendVars, turnVars, pair>>

\* the 'end' event, after the last byte
StreamEnd ==
    /\ streamState = "open"
    /\ pos = Len(wire)
    /\ \E r \in {EndHandler(provider, StreamLocals)} :
           /\ decoder' = r.decoder
           /\ buffers' = r.buffers
           /\ fullMessage' = r.fullMessage
           /\ sse' = r.sse
           /\ onComplete' = Append(onComplete, r.fullMessage)
    /\ streamState' = "ended"
    /\ UNCHANGED <<wire, pos, nchunks, provider, toolVars, adjustVars, sendVars, turnVars,
                   pair>>

\* an 'error' event: the connection breaks at any point before the end
StreamError ==
    /\ streamState = "open"
    /\ sse' = Append(sse, ErrorEvent(provider, "stream error"))
    /\ onComplete' = Append(onComplete, <<>>)
    /\ streamState' = "errored"
    /\ UNCHANGED <<wire, pos, nchunks, provider, decoder, buffers, fullMessage,
                   toolVars, adjustVars, sendVars, turnVars, pair>>

StreamNext == StreamData \/ StreamEnd \/ StreamError

StreamSpec == StreamInit /\ [][StreamNext]_vars

-----------------------------------------------------------------------------
(* Two processStreamingResponse calls whose 'data' events interleave.  Each   *)
(* call gets its stream in the chunks the provider cut it into.              *)

\* a unit broken between two lines, a chunk for each line
ChunkedBroken ==
    <<dataPrefix \o UnitHead \o <<"\n">>, UnitBody(<<"a">>) \o UnitTail \o <<"\n">>>>

\* two units, a chunk for each
ChunkedTwoUnits == <<Frame(Unit(<<"a">>)), Frame(Unit(<<"b">>)) \o Frame(Sentinel)>>

\* a unit cut inside a character of two bytes
ChunkedAccent ==
    <<dataPrefix \o UnitHead \o <<"{", Q>> \o KeyContent \o <<Q, ":", Q, LeadByte>>,
      <<ContByte, Q, "}">> \o UnitTail \o <<"\n">>>>

ChunkedStreams == {ChunkedBroken, ChunkedTwoUnits, ChunkedAccent}

\* a call of processStreamingResponse(stream, provider, sendSSE, onComplete):
\* its decoder, buffers and fullMessage are declared in the call (lines
\* 362-372), and sendSSE and onComplete are the caller's own
PairCall(chunks, p) ==
    [chunks |-> chunks, provider |-> p, delivered |-> 0, locals |-> FreshStream,
     state |-> "open", onComplete |-> <<>>]

\* the data handler of a call on its next chunk
Deliver(c) ==
    [c EXCEPT !.locals = DataHandler(c.chunks[c.delivered + 1], c.provider, c.locals),
              !.delivered = @ + 1]

\* the end handler of a call (lines 390-415)
EndCall(c) ==
    [c EXCEPT !.locals = EndHandler(c.provider, c.locals),
              !.onComplete = Append(@, EndHandler(c.provider, c.locals).fullMessage),
              !.state = "ended"]

\* the error handler of a call (lines 417-421)
ErrorCall(c) ==
    [c EXCEPT !.locals.sse = Append(@, ErrorEvent(c.provider, "stream error")),
              !.onComplete = Append(@, <<>>),
              !.state = "errored"]

\* one buffers object shared by the calls
StoreSharingBuffers(cs, i, c) ==
    [j \in DOMAIN cs |->
        IF j = i THEN c ELSE [cs[j] EXCEPT !.locals.buffers = c.locals.buffers]]

\* a handler of call i has run: what it wrote is in the locals of its call
Store(cs, i, c) == [cs EXCEPT ![i] = c]

PairInit ==
    /\ body = <<>> /\ tpc = "idle" /\ turn = <<>> /\ ended = 0 /\ errors = <<>>
    /\ data = <<>> /\ env = <<>> /\ spc = "idle" /\ locals = <<>> /\ vendor = "none"
    /\ http = <<>> /\ writes = <<>> /\ thrown = <<>> /\ returned = <<>>
    /\ wire = <<>> /\ provider = "none" /\ pos = 0 /\ nchunks = 0 /\ decoder = <<>>
    /\ buffers = <<>> /\ fullMessage = <<>> /\ sse = <<>> /\ onComplete = <<>>
    /\ streamState = "idle"
    /\ toolCalls = <<>> /\ availableTools = <<>> /\ context = JNull
    /\ callIdx = 0 /\ results = <<>> /\ executions = <<>> /\ toolState = "idle"
    /\ given = <<>> /\ contextWindow = 0 /\ estimator = "none" /\ system = <<>>
    /\ history = <<>> /\ prompt = <<>> /\ currentTokens = 0 /\ pc = "idle"
    /\ \E one, two \in ChunkedStreams, p, q \in Providers :
        pair = [calls |-> <<PairCall(one, p), PairCall(two, q)>>, order |-> <<>>]

\* a 'data' event of one of the two streams
PairData ==
    /\ \E i \in DOMAIN pair.calls :
        /\ pair.calls[i].state = "open"
        /\ pair.calls[i].delivered < Len(pair.calls[i].chunks)
        /\ pair' = [calls |-> Store(pair.calls, i, Deliver(pair.calls[i])),
                    order |-> Append(pair.order, i)]
    /\ UNCHANGED <<streamVars, toolVars, adjustVars, sendVars, turnVars>>

\* the 'end' event of one of the two streams
PairEnd ==
    /\ \E i \in DOMAIN pair.calls :
        /\ pair.calls[i].state = "open"
        /\ pair.calls[i].delivered = Len(pair.calls[i].chunks)
        /\ pair' = [pair EXCEPT !.calls = Store(pair.calls, i, EndCall(pair.calls[i]))]
    /\ UNCHANGED <<streamVars, toolVars, adjustVars, sendVars, turnVars>>

\* an 'error' event of one of the two streams
PairError ==
    /\ \E i \in DOMAIN pair.calls :
        /\ pair.calls[i].state = "open"
        /\ pair' = [pair EXCEPT !.calls = Store(pair.calls, i, ErrorCall(pair.calls[i]))]
    /\ UNCHANGED <<streamVars, toolVars, adjustVars, sendVars, turnVars>>

PairNext == PairData \/ PairEnd \/ PairError

PairSpec == PairInit /\ [][PairNext]_vars

-----------------------------------------------------------------------------
(* executeToolCalls *)

KeyIdProject == <<"i", "d", "P", "r", "o", "j", "e", "c", "t">>
KeyProjectId == <<"p", "r", "o", "j", "e", "c", "t", "I", "d">>
KeyUpdateExisting ==
    <<"u", "p", "d", "a", "t", "e", "E", "x", "i", "s", "t", "i", "n", "g">>

\* the tools whose arguments get the ambient project id (line 571)
ProjectTools ==
    {"createSmartContract", "compileFoundryProject", "deployToMantleTestnet",
     "runFoundryTests"}

\* JavaScript truthiness of a value (undefined and null are JNull)
Truthy(v) == v.t \in {"obj", "arr", "true"} \/ (v.t = "str" /\ v.s # <<>>)

\* obj[key] = val
SetMember(obj, key, val) ==
    IF \E n \in DOMAIN obj.m : obj.m[n].k = key
    THEN JObj([n \in DOMAIN obj.m |->
                 IF obj.m[n].k = key THEN [k |-> key, v |-> val] ELSE obj.m[n]])
    ELSE JObj(Append(obj.m, [k |-> key, v |-> val]))

\* a lookup that ignores the name: find(t => true)
FindToolAny(tools, name) == IF tools = <<>> THEN 0 ELSE 1

\* availableTools.find(t => t.function.name === name): its index, 0 for undefined
FindTool(tools, name) ==
    IF \E n \in DOMAIN tools : tools[n].function.name = name
    THEN CHOOSE n \in DOMAIN tools :
            /\ tools[n].function.name = name
            /\ \A m \in 1 .. (n - 1) : tools[m].function.name # name
    ELSE 0

\* a value that is no object: true or a string.  The file is an ES module,
\* hence strict code, where writing a property of such a value throws
IsPrimitive(v) == v.t \in {"true", "str"}

\* lines 565-568: [threw, args]; reading a property of null throws, and so
\* does writing one of a primitive
InjectFoundry(name, args, ctx) ==
    IF name # "createFoundryProject" THEN [threw |-> FALSE, args |-> args]
    ELSE IF args.t = "null" THEN [threw |-> TRUE, args |-> args]
    ELSE IF ~Truthy(Member(args, KeyIdProject)) /\ Truthy(Member(ctx, KeyIdProject))
    THEN IF IsPrimitive(args) THEN [threw |-> TRUE, args |-> args]
         ELSE [threw |-> FALSE,
               args  |-> SetMember(SetMember(args, KeyIdProject, Member(ctx, KeyIdProject)),
                                   KeyUpdateExisting, JTrue)]
    ELSE [threw |-> FALSE, args |-> args]

\* an injection that does not look at the projectId of the arguments
InjectProjectAlways(name, r, ctx) ==
    IF r.threw \/ name \notin ProjectTools \/ ~Truthy(Member(ctx, KeyIdProject)) THEN r
    ELSE IF r.args.t = "null" THEN [threw |-> TRUE, args |-> r.args]
    ELSE [threw |-> FALSE, args |-> SetMember(r.args, KeyProjectId, Member(ctx, KeyIdProject))]

\* lines 571-575, after lines 565-568 have given r
InjectProject(name, r, ctx) ==
    IF r.threw \/ name \notin ProjectTools \/ ~Truthy(Member(ctx, KeyIdProject)) THEN r
    ELSE IF r.args.t = "null" THEN [threw |-> TRUE, args |-> r.args]
    ELSE IF ~Truthy(Member(r.args, KeyProjectId))
    THEN [threw |-> FALSE, args |-> SetMember(r.args, KeyProjectId, Member(ctx, KeyIdProject))]
    ELSE r

\* lines 564-576: if(context) { ... }
Inject(name, args, ctx) ==
    IF ~Truthy(ctx) THEN [threw |-> FALSE, args |-> args]
    ELSE InjectProject(name, InjectFoundry(name, args, ctx), ctx)

\* what one iteration of the for loop does: the results it pushes, the
\* executor invocations it makes, and whether an exception leaves the function
Outcome(pushed, executed, threw) ==
    [pushed |-> pushed, executed |-> executed, threw |-> threw]

\* an unknown tool skipped without a result
ToolNotFoundSkipped(name, argsString) == Outcome(<<>>, <<>>, FALSE)

\* lines 547-556
ToolNotFound(name, argsString) ==
    Outcome(<<[name |-> name, status |-> "error", error |-> "Tool not found",
               arguments |-> argsString]>>, <<>>, FALSE)

\* lines 577-586
InvalidArguments(name, argsString) ==
    Outcome(<<[name |-> name, status |-> "error", error |-> "Invalid arguments format",
               arguments |-> argsString]>>, <<>>, FALSE)

\* lines 589-598
NoExecutor(name, args) ==
    Outcome(<<[name |-> name, status |-> "error", error |-> "Tool has no executor",
               arguments |-> args]>>, <<>>, FALSE)

\* the executor invocation of line 602, as the k-th call of the list
Invocation(k, name, args, ctx) ==
    [call |-> k, name |-> name, args |-> args, context |-> ctx]

\* lines 605-610: the executor returned.  What it returns depends on its
\* arguments and on how many executors ran before it (nth).
ExecutorReturned(k, name, args, ctx, nth) ==
    Outcome(<<[name |-> name, status |-> "success",
               result |-> [by |-> name, args |-> args, nth |-> nth],
               arguments |-> args]>>,
            <<Invocation(k, name, args, ctx)>>, FALSE)

\* the executor's exception left uncaught
ExecutorThrewUncaught(k, name, args, argsString, ctx, msg) ==
    Outcome(<<>>, <<Invocation(k, name, args, ctx)>>, TRUE)

\* lines 612-620: the executor threw, the catch block records the message
ExecutorThrew(k, name, args, argsString, ctx, msg) ==
    Outcome(<<[name |-> name, status |-> "error", error |-> msg,
               arguments |-> argsString]>>,
            <<Invocation(k, name, args, ctx)>>, FALSE)

\* lines 588-610 for a tool definition and parsed, injected arguments
RunExecutor(k, toolDef, name, args, argsString, ctx, nth) ==
    IF toolDef.executor = "none" THEN NoExecutor(name, args)
    ELSE IF toolDef.executor = "throws"
    THEN ExecutorThrew(k, name, args, argsString, ctx, toolDef.message)
    ELSE ExecutorReturned(k, name, args, ctx, nth)

\* lines 559-610 once JSON.parse(argsString) and the injection have given r
WithArguments(k, toolDef, name, r, argsString, ctx, nth) ==
    IF r.threw THEN InvalidArguments(name, argsString)
    ELSE RunExecutor(k, toolDef, name, r.args, argsString, ctx, nth)

\* lines 559-610 once JSON.parse(argsString) has given parsed
WithParsed(k, toolDef, name, parsed, argsString, ctx, nth) ==
    IF ~parsed.ok THEN InvalidArguments(name, argsString)
    ELSE WithArguments(k, toolDef, name, Inject(name, parsed.v, ctx), argsString, ctx, nth)

\* lines 546-610 once the tool definition is looked up (n = 0: not found)
WithTool(k, n, tools, name, argsString, ctx, nth) ==
    IF n = 0 THEN ToolNotFound(name, argsString)
    ELSE WithParsed(k, tools[n], name, JsonParse(argsString), argsString, ctx, nth)

\* one iteration of the for loop (lines 540-621) for the k-th call; nth is
\* the number this executor invocation would have
ExecuteCall(k, call, tools, ctx, nth) ==
    WithTool(k, FindTool(tools, call.function.name), tools, call.function.name,
             call.function.arguments, ctx, nth)

\* executeToolCalls run to its end on a list, from the k-th call on; acc is
\* [results, executions]
AfterCall(acc, r) ==
    [results |-> acc.results \o r.pushed, executions |-> acc.executions \o r.executed]

RECURSIVE RunFrom(_, _, _, _, _)
RunFrom(calls, k, tools, ctx, acc) ==
    IF k > Len(calls) THEN acc
    ELSE RunFrom(calls, k + 1, tools, ctx,
            AfterCall(acc, ExecuteCall(k, calls[k], tools, ctx, Len(acc.executions) + 1)))

RunAll(calls, tools, ctx) ==
    RunFrom(calls, 1, tools, ctx, [results |-> <<>>, executions |-> <<>>])

-----------------------------------------------------------------------------
(* The arguments of executeToolCalls in the model *)

EmptyObject == <<"{", "}">>
QueryArgs ==
    <<"{", Q, "q", "u", "e", "r", "y", Q, ":", Q, "x", Q, "}">>
CutArgs == <<"{", Q, "q", "u", "e", "r", "y", Q, ":">>
ProjectArgs == <<"{", Q>> \o KeyProjectId \o <<Q, ":", Q, "p", "2", Q, "}">>
\* arguments whose projectId is the empty string
BlankProjectArgs == <<"{", Q>> \o KeyProjectId \o <<Q, ":", Q, Q, "}">>
NullArgs == <<"n", "u", "l", "l">>
\* arguments that are no object
TrueArgs == <<"t", "r", "u", "e">>

ToolCall(name, argsString) == [function |-> [name |-> name, arguments |-> argsString]]

Calls ==
    {ToolCall("foo", EmptyObject),
     ToolCall("webSearch", QueryArgs),
     ToolCall("webSearch", CutArgs),
     ToolCall("schemaOnly", EmptyObject),
     ToolCall("brokenTool", EmptyObject),
     ToolCall("createSmartContract", EmptyObject),
     ToolCall("createSmartContract", ProjectArgs),
     ToolCall("createSmartContract", BlankProjectArgs),
     ToolCall("createSmartContract", NullArgs),
     ToolCall("createFoundryProject", EmptyObject)}

\* a tool definition: executor is "returns", "throws" (with message) or
\* "none" (the definition has no executor function)
ToolDef(name, executor, message) ==
    [function |-> [name |-> name], executor |-> executor, message |-> message]

FullTools ==
    <<ToolDef("webSearch", "returns", ""),
      ToolDef("schemaOnly", "none", ""),
      ToolDef("brokenTool", "throws", "executor failed"),
      ToolDef("createSmartContract", "returns", ""),
      ToolDef("createFoundryProject", "returns", "")>>

SearchOnlyTools == <<ToolDef("webSearch", "returns", "")>>

ToolTables == {FullTools, SearchOnlyTools}

Contexts ==
    {JNull, JObj(<<>>), JObj(<<[k |-> KeyIdProject, v |-> JStr(<<"p", "1">>)]>>)}

-----------------------------------------------------------------------------
(* One executeToolCalls call as a state machine *)

ToolInit ==
    /\ body = <<>> /\ tpc = "idle" /\ turn = <<>> /\ ended = 0 /\ errors = <<>>
    /\ pair = <<>>
    /\ data = <<>> /\ env = <<>> /\ spc = "idle" /\ locals = <<>> /\ vendor = "none"
    /\ http = <<>> /\ writes = <<>> /\ thrown = <<>> /\ returned = <<>>
    /\ wire = <<>> /\ provider = "none" /\ pos = 0 /\ nchunks = 0 /\ decoder = <<>>
    /\ buffers = <<>> /\ fullMessage = <<>> /\ sse = <<>> /\ onComplete = <<>>
    /\ streamState = "idle"
    /\ given = <<>> /\ contextWindow = 0 /\ estimator = "none" /\ system = <<>>
    /\ history = <<>> /\ prompt = <<>> /\ currentTokens = 0 /\ pc = "idle"
    /\ toolCalls \in UNION {[1 .. n -> Calls] : n \in 0 .. MaxCalls}
    /\ availableTools \in ToolTables
    /\ context \in Contexts
    /\ callIdx = 0
    /\ results = <<>>
    /\ executions = <<>>
    /\ toolState = "running"

\* one iteration of the for loop
ToolStep ==
    /\ toolState = "running"
    /\ callIdx < Len(toolCalls)
    /\ \E r \in {ExecuteCall(callIdx + 1, toolCalls[callIdx + 1], availableTools,
                             context, Len(executions) + 1)} :
        /\ results' = results \o r.pushed
        /\ executions' = executions \o r.executed
        /\ toolState' = IF r.threw THEN "threw" ELSE "running"
    /\ callIdx' = callIdx + 1
    /\ UNCHANGED <<toolCalls, availableTools, context, streamVars, adjustVars, sendVars, turnVars,
                   pair>>

\* return results (line 624)
ToolReturn ==
    /\ toolState = "running"
    /\ callIdx = Len(toolCalls)
    /\ toolState' = "returned"
    /\ UNCHANGED <<toolCalls, availableTools, context, callIdx, results, executions,
                   streamVars, adjustVars, sendVars, turnVars, pair>>

ToolNext == ToolStep \/ ToolReturn

ToolSpec == ToolInit /\ [][ToolNext]_vars

-----------------------------------------------------------------------------
(* adjustContent and estimateTokens.  A text is [id, len]: the first len    *)
(* characters of the text named id, which is all that length and            *)
(* substring(0, n) tell apart.                                              *)

Text(id, len) == [id |-> id, len |-> len]
Message(role, content) == [role |-> role, content |-> content]

\* the response buffer of line 769
ResponseBuffer == 50
\* system and prompt are trimmed only when longer than this (lines 804, 821)
TrimThreshold == 200
\* and keep at least this many characters (lines 808, 825)
KeepAtLeast == 100
\* characters per token (lines 807, 824, 864)
CharsPerToken == 4

\* Math.ceil(a / b) for a >= 0, b > 0
CeilDiv(a, b) == (a + b - 1) \div b

Min(a, b) == IF a <= b THEN a ELSE b

\* [ { role: 'system', content: system }, ...history, { role: 'user', content: prompt } ]
MessagesForEstimation(sys, hist, pr) ==
    <<Message("system", sys)>> \o hist \o <<Message("user", pr)>>

\* charCount of the fallback (lines 860-863)
RECURSIVE CharCountBetween(_, _, _)
CharCountBetween(messages, lo, hi) ==
    IF lo > hi THEN 0
    ELSE IF lo = hi THEN messages[lo].content.len
    ELSE CharCountBetween(messages, lo, (lo + hi) \div 2)
            + CharCountBetween(messages, (lo + hi) \div 2 + 1, hi)

CharCount(messages, n) == CharCountBetween(messages, 1, n)

\* promptTokensEstimate({ messages }) of openai-chat-tokens when it returns:
\* per message the tokens of the role (one) and of the non-empty content
\* plus three, and three per completion.  A text of n characters has
\* ceil(n / density) tokens, density being the characters per token of the
\* tokenizer on these texts.
RECURSIVE MessageTokens(_, _, _, _)
MessageTokens(messages, lo, hi, density) ==
    IF lo > hi THEN 0
    ELSE IF lo = hi THEN CeilDiv(messages[lo].content.len, density) + 1 + 3
    ELSE MessageTokens(messages, lo, (lo + hi) \div 2, density)
            + MessageTokens(messages, (lo + hi) \div 2 + 1, hi, density)

PromptTokens(messages, n, density) == MessageTokens(messages, 1, n, density) + 3

\* an estimate of one token per character
estimateTokensPerChar(messages, est) == CharCount(messages, Len(messages))

\* estimateTokens(messages); est tells whether promptTokensEstimate throws
\* on these messages
estimateTokens(messages, est) ==
    IF est.throws THEN CeilDiv(CharCount(messages, Len(messages)), CharsPerToken)
    ELSE PromptTokens(messages, Len(messages), est.density)

\* a loop that stops with one message left
KeepTrimmingButOne(tokens, target, hist) == tokens > target /\ Len(hist) > 1

\* the while condition of line 792
KeepTrimming(tokens, target, hist) == tokens > target /\ hist # <<>>

\* history.pop(): the newest message removed instead
DropNewest(hist) == SubSeq(hist, 1, Len(hist) - 1)

\* a shift that removes nothing
ShiftNothing(hist) == hist

\* history.shift()
ShiftOldest(hist) == Tail(hist)

\* trimLength of lines 806-808 and 823-825
TrimLength(tokensOver, len) == Min(tokensOver * CharsPerToken, len - KeepAtLeast)

\* lines 804-818 and 821-831: the text after the trimming block
Trimmed(text, tokens, target) ==
    IF tokens > target /\ text.len > TrimThreshold /\ TrimLength(tokens - target, text.len) > 0
    THEN Text(text.id, text.len - TrimLength(tokens - target, text.len))
    ELSE text

-----------------------------------------------------------------------------
(* The arguments of adjustContent in the model *)

SystemTexts == {Text("system", n) : n \in {0, 150, 500, 3000, 20000}}
PromptTexts == {Text("prompt", n) : n \in {100, 250, 2000, 20000}}
HistoryMessages ==
    {Message("user", Text("question", 200)), Message("assistant", Text("answer", 1500))}
Histories == UNION {[1 .. n -> HistoryMessages] : n \in 0 .. MaxHistory}

\* a long conversation: 50 history messages of 200 characters, a system
\* prompt of 500 characters and a prompt of 100
LongConversation ==
    [system |-> Text("system", 500),
     history |-> [n \in 1 .. 50 |-> Message("user", Text("question", 200))],
     prompt |-> Text("prompt", 100)]

Givens ==
    [system : SystemTexts, history : Histories, prompt : PromptTexts]
        \cup {LongConversation}

\* context windows of the model table; 4096 is also the default of line 719
ContextWindows == {448, 4096}

Estimators ==
    {[throws |-> TRUE, density |-> 0]}
        \cup {[throws |-> FALSE, density |-> d] : d \in {1, 4, 5}}

-----------------------------------------------------------------------------
(* One adjustContent call as a state machine *)

targetTokens == contextWindow - ResponseBuffer

AdjustInit ==
    /\ body = <<>> /\ tpc = "idle" /\ turn = <<>> /\ ended = 0 /\ errors = <<>>
    /\ pair = <<>>
    /\ data = <<>> /\ env = <<>> /\ spc = "idle" /\ locals = <<>> /\ vendor = "none"
    /\ http = <<>> /\ writes = <<>> /\ thrown = <<>> /\ returned = <<>>
    /\ wire = <<>> /\ provider = "none" /\ pos = 0 /\ nchunks = 0 /\ decoder = <<>>
    /\ buffers = <<>> /\ fullMessage = <<>> /\ sse = <<>> /\ onComplete = <<>>
    /\ streamState = "idle"
    /\ toolCalls = <<>> /\ availableTools = <<>> /\ context = JNull
    /\ callIdx = 0 /\ results = <<>> /\ executions = <<>> /\ toolState = "idle"
    /\ given \in Givens
    /\ contextWindow \in ContextWindows
    /\ estimator \in Estimators
    /\ system = given.system
    /\ history = given.history
    /\ prompt = given.prompt
    /\ currentTokens = 0
    /\ pc = "enter"

\* lines 769-786: the first estimate, and the return when it fits
AdjustEnter ==
    /\ pc = "enter"
    /\ currentTokens' = estimateTokens(MessagesForEstimation(system, history, prompt), estimator)
    /\ pc' = IF currentTokens' <= targetTokens THEN "done" ELSE "history"
    /\ UNCHANGED <<given, contextWindow, estimator, system, history, prompt,
                   streamVars, toolVars, sendVars, turnVars, pair>>

\* one iteration of the while loop of lines 792-801
AdjustShift ==
    /\ pc = "history"
    /\ KeepTrimming(currentTokens, targetTokens, history)
    /\ history' = ShiftOldest(history)
    /\ currentTokens' = estimateTokens(MessagesForEstimation(system, history', prompt), estimator)
    /\ UNCHANGED <<given, contextWindow, estimator, system, prompt, pc,
                   streamVars, toolVars, sendVars, turnVars, pair>>

\* the loop is left; lines 804-818
AdjustSystem ==
    /\ pc = "history"
    /\ ~KeepTrimming(currentTokens, targetTokens, history)
    /\ system' = Trimmed(system, currentTokens, targetTokens)
    /\ currentTokens' =
          IF system' # system
          THEN estimateTokens(MessagesForEstimation(system', history, prompt), estimator)
          ELSE currentTokens
    /\ pc' = "prompt"
    /\ UNCHANGED <<given, contextWindow, estimator, history, prompt,
                   streamVars, toolVars, sendVars, turnVars, pair>>

\* lines 821-846: the prompt is trimmed without a new estimate, and the
\* triple is returned
AdjustPrompt ==
    /\ pc = "prompt"
    /\ prompt' = Trimmed(prompt, currentTokens, targetTokens)
    /\ pc' = "done"
    /\ UNCHANGED <<given, contextWindow, estimator, system, history, currentTokens,
                   streamVars, toolVars, sendVars, turnVars, pair>>

AdjustNext == AdjustEnter \/ AdjustShift \/ AdjustSystem \/ AdjustPrompt

AdjustSpec == AdjustInit /\ [][AdjustNext]_vars

\* adjustContent is synchronous code: once called it runs each of its steps
AdjustFair == AdjustSpec /\ WF_vars(AdjustNext)

-----------------------------------------------------------------------------
(* Steps 2 to 5 of sendMessage: the content is adjusted and max_tokens is    *)
(* set (lines 111-158).  data holds the max_tokens and responseFormat the    *)
(* caller gave, http the request body that is built.                         *)

\* the buffer of line 131
MaxTokensBuffer == 10
\* the value of line 132
MinimumMaxTokens == 100
\* the value of line 144
JsonMaxTokens == 4096

\* lines 131-132
calculatedMaxTokens(window, estimatedPromptTokens) ==
    IF window - estimatedPromptTokens - MaxTokensBuffer < 1 THEN MinimumMaxTokens
    ELSE window - estimatedPromptTokens - MaxTokensBuffer

\* lines 134-146; given_max is 0 when the caller gave no positive number
finalMaxTokens(given_max, responseFormat, window, estimatedPromptTokens) ==
    IF responseFormat = "json_object" THEN JsonMaxTokens
    ELSE IF given_max > 0 THEN given_max
    ELSE calculatedMaxTokens(window, estimatedPromptTokens)

\* requestData of lines 150-159, of which the messages and max_tokens
RequestData(messages, max_tokens) == [messages |-> messages, max_tokens |-> max_tokens]

BudgetData == [max_tokens : {0, 256, 8000}, responseFormat : {"none", "text", "json_object"}]

BudgetInit ==
    /\ body = <<>> /\ tpc = "idle" /\ turn = <<>> /\ ended = 0 /\ errors = <<>>
    /\ pair = <<>>
    /\ env = <<>> /\ spc = "idle" /\ locals = <<>> /\ vendor = "none"
    /\ writes = <<>> /\ thrown = <<>> /\ returned = <<>>
    /\ wire = <<>> /\ provider = "none" /\ pos = 0 /\ nchunks = 0 /\ decoder = <<>>
    /\ buffers = <<>> /\ fullMessage = <<>> /\ sse = <<>> /\ onComplete = <<>>
    /\ streamState = "idle"
    /\ toolCalls = <<>> /\ availableTools = <<>> /\ context = JNull
    /\ callIdx = 0 /\ results = <<>> /\ executions = <<>> /\ toolState = "idle"
    /\ data \in BudgetData
    /\ http = <<>>
    /\ given \in Givens
    /\ contextWindow \in ContextWindows
    /\ estimator \in Estimators
    /\ system = given.system
    /\ history = given.history
    /\ prompt = given.prompt
    /\ currentTokens = 0
    /\ pc = "enter"

\* lines 119-159 once adjustContent has returned: the messages are built,
\* estimated, and the request body gets its max_tokens
BudgetBuild ==
    /\ pc = "done"
    /\ http = <<>>
    /\ http' = <<RequestData(MessagesForEstimation(system, history, prompt),
                             finalMaxTokens(data.max_tokens, data.responseFormat,
                                            contextWindow,
                                            estimateTokens(MessagesForEstimation(system,
                                                               history, prompt),
                                                           estimator)))>>
    /\ UNCHANGED <<data, env, spc, locals, vendor, writes, thrown, returned,
                   streamVars, toolVars, adjustVars, turnVars, pair>>

BudgetNext == AdjustEnter \/ AdjustShift \/ AdjustSystem \/ AdjustPrompt \/ BudgetBuild

BudgetSpec == BudgetInit /\ [][BudgetNext]_vars

-----------------------------------------------------------------------------
(* sendMessage, solveModelInfo and extractContext.  An error message is the *)
(* sequence of its parts.  The content length adjustment of step 2 is       *)
(* modelled on its own above; here the messages are taken as they are.      *)

\* the model tables of ai-models.js, with some of their names
openAIModels == {"gpt-4.1-nano", "gpt-4o"}
perplexityModels == {"llama-3.1-8b-instruct"}
groqModels == {"whisper-large-v3"}
openRouterModels == {"burrito-8x7b"}
googleModels == {"gemini-pro"}

\* line 674
allModels ==
    openAIModels \cup perplexityModels \cup groqModels \cup openRouterModels
        \cup googleModels

\* lines 687-706: the provider, by the first table that has the name
ProviderOf(model) ==
    IF model \in openAIModels THEN "openai"
    ELSE IF model \in perplexityModels THEN "perplexity"
    ELSE IF model \in groqModels THEN "groq"
    ELSE IF model \in openRouterModels THEN "openrouter"
    ELSE "google"

\* a resolution that checks neither the tables nor the credentials
solveModelInfoUnchecked(model, credentials) ==
    [ok |-> TRUE, provider |-> ProviderOf(model), error |-> <<>>]

\* solveModelInfo(model); credentials is the set of providers whose key is
\* set in process.env.  [ok |-> FALSE] stands for the Error it throws.
solveModelInfo(model, credentials) ==
    IF model \notin allModels
    THEN [ok |-> FALSE, provider |-> "", error |-> <<"Model info not found for: ", model>>]
    ELSE IF ProviderOf(model) \notin credentials
    THEN [ok |-> FALSE, provider |-> "",
          error |-> <<"Auth token not found for provider: ", ProviderOf(model)>>]
    ELSE [ok |-> TRUE, provider |-> ProviderOf(model), error |-> <<>>]

\* the model of extractContext (line 637)
ExtractModel == "gpt-4.1-nano"

\* the rethrow of the catch block (lines 342-355)
Wrapped(parts) == <<"Error processing request: ">> \o parts

\* a provider's behaviour on one request: a 2xx response with the text and
\* the tool calls of its first choice, a non-2xx response (error.response),
\* or no response at all (error.request)
Answer(content, calls) == [kind |-> "ok", content |-> content, toolCalls |-> calls]
HttpError == [kind |-> "http", content |-> <<>>, toolCalls |-> <<>>]
NoResponse == [kind |-> "noResponse", content |-> <<>>, toolCalls |-> <<>>]

\* the message thrown for a failed request (lines 344-351)
RequestError(reply) ==
    IF reply.kind = "http" THEN Wrapped(<<"API Error">>)
    ELSE Wrapped(<<"No response from API provider.">>)

\* { ...a, ...b }: the own properties of a, then those of b; spreading
\* null or undefined adds nothing
RECURSIVE SetAll(_, _, _)
SetAll(obj, m, n) ==
    IF n = 0 THEN obj ELSE SetMember(SetAll(obj, m, n - 1), m[n].k, m[n].v)

SpreadInto(obj, v) == IF v.t = "obj" THEN SetAll(obj, v.m, Len(v.m)) ELSE obj

Spread(a, b) == SpreadInto(SpreadInto(JObj(<<>>), a), b)

\* the state of one sendMessage call
SendState(p, l, h, w, t, r) ==
    [spc |-> p, locals |-> l, http |-> h, writes |-> w, thrown |-> t, returned |-> r]

Throw(st, parts) == [st EXCEPT !.spc = "threw", !.thrown = parts]
Return(st, value) == [st EXCEPT !.spc = "returned", !.returned = value]

\* the request of line 249: where it goes and what it carries
Request(p, model, stream, ctx, hist, tools, format) ==
    [provider |-> p, model |-> model, stream |-> stream, context |-> ctx,
     history |-> hist, tools |-> tools, format |-> format]

\* axios.post(url, requestData, axiosConfig): the request is issued and the
\* call waits for the response
Post(st, request, awaiting) ==
    [st EXCEPT !.spc = awaiting, !.http = Append(@, request)]

\* tools that go into every request
ToolsSentAlways(p, tools) == tools

\* lines 163-176: the tools go into the request for these providers only
ToolsSent(p, tools) == IF p \in {"openai", "openrouter", "google"} THEN tools ELSE <<>>

\* lines 181-196: what the request says about the format of the response.
\* responseFormat is "none" when the caller gave none, else its type
FormatSent(p, responseFormat) ==
    IF responseFormat = "none" THEN "none"
    ELSE IF p \in {"openai", "openrouter"} THEN responseFormat
    ELSE IF p = "google" /\ responseFormat = "json_object" THEN "responseSchema"
    ELSE "none"

\* lines 93-102: the history is loaded when the ids are given and no history is
NeedsLoad(d) == d.idChat /\ d.history = <<>>

LoadedHistory(d, stored) == IF NeedsLoad(d) THEN stored.messages ELSE d.history

LoadedContext(d, stored) ==
    IF NeedsLoad(d) /\ ~Truthy(d.context) /\ Truthy(stored.context)
    THEN stored.context ELSE d.context

\* return {} of extractContext's catch block (line 662)
NoUpdates == JObj(<<>>)

\* lines 88-249 once the model is resolved
SendResolved(st, d, e, info) ==
    IF ~info.ok THEN Throw(st, Wrapped(info.error))
    ELSE IF NeedsLoad(d) /\ ~e.stored.ok THEN Throw(st, Wrapped(<<"getHistory failed">>))
    ELSE Post([st EXCEPT !.locals = [provider |-> info.provider,
                                     context  |-> LoadedContext(d, e.stored),
                                     extraction |-> "none",
                                     updates |-> NoUpdates,
                                     toolResults |-> <<>>,
                                     response |-> <<>>]],
              Request(info.provider, d.model, d.stream, LoadedContext(d, e.stored),
                      LoadedHistory(d, e.stored), ToolsSent(info.provider, d.tools),
                      FormatSent(info.provider, d.responseFormat)),
              "await")

\* lines 76-249: sendMessage up to the request
SendUntilPost(st, d, e) ==
    IF d.model = "" THEN Throw(st, <<"Missing field: model">>)
    ELSE IF d.prompt = <<>> THEN Throw(st, <<"Missing field: prompt">>)
    ELSE SendResolved(st, d, e, solveModelInfo(d.model, e.credentials))

\* step 11 (lines 253-273): executeToolCalls(toolCalls, tools), without context
ToolResultsOf(d, p, reply) ==
    IF d.executeTools /\ d.tools # <<>> /\ ~d.stream /\ p = "openai"
          /\ reply.toolCalls # <<>>
    THEN RunAll(reply.toolCalls, d.tools, JNull).results
    ELSE <<>>

\* lines 283-287: the response text is read for these two providers only
ResponseText(p, reply) == IF p \in {"openai", "google"} THEN reply.content ELSE <<>>

\* the message of lines 302-313 and of lines 1391-1410
AssistantMessage(text, ctx, toolResults) ==
    [role |-> "assistant", text |-> text, context |-> ctx, toolResults |-> toolResults]

\* what the call returns: response.data, with the tool results (lines 321-340)
Result(st) == [data |-> st.locals.response, toolResults |-> st.locals.toolResults]

\* lines 302-340: the message is created and the response returned; a
\* rejected create is rethrown by the catch block
SaveAndReturn(st, text, ctx, created) ==
    IF created
    THEN Return([st EXCEPT !.writes =
                    Append(@, AssistantMessage(text, ctx, st.locals.toolResults))],
                Result(st))
    ELSE Throw(st, Wrapped(<<"create failed">>))

\* lines 654-657 given the outcome of JSON.parse(contextUpdates):
\* Object.keys(null) throws
ParsedUpdates(parsed) ==
    IF ~parsed.ok \/ parsed.v.t = "null" THEN NoUpdates ELSE parsed.v

\* result.choices?.[0]?.message?.content || '{}'
UpdatesText(reply) == IF reply.content = <<>> THEN EmptyObject ELSE reply.content

\* whether extractContext ends in its catch block on this reply
ExtractFails(reply) ==
    \/ reply.kind # "ok"
    \/ ~JsonParse(UpdatesText(reply)).ok
    \/ JsonParse(UpdatesText(reply)).v.t = "null"

\* what extractContext returns once its request is answered
ContextUpdates(reply) ==
    IF reply.kind # "ok" THEN NoUpdates
    ELSE ParsedUpdates(JsonParse(UpdatesText(reply)))

\* the request extractContext makes through sendMessage (lines 636-651)
ExtractRequest(text, ctx) ==
    Request("openai", ExtractModel, FALSE, JNull,
            <<Message("assistant", ctx), Message("assistant", text)>>, <<>>,
            "json_object")

\* line 293: extractContext calls sendMessage, which issues its request, or
\* throws at the model resolution and is caught (line 659)
StartExtract(st, e, text, created) ==
    IF solveModelInfo(ExtractModel, e.credentials).ok
    THEN Post([st EXCEPT !.locals.extraction = "pending"],
              ExtractRequest(text, st.locals.context), "awaitExtract")
    ELSE SaveAndReturn([st EXCEPT !.locals.extraction = "failed"], text,
                       Spread(st.locals.context, NoUpdates), created)

\* context || {}
OrEmpty(ctx) == IF Truthy(ctx) THEN ctx ELSE JObj(<<>>)

\* lines 276-341 for an answered request
SendAnswered(st, d, e, text, created) ==
    IF ~(d.idChat /\ d.userId /\ ~d.stream) THEN Return(st, Result(st))
    ELSE IF text # <<>> /\ Truthy(st.locals.context) THEN StartExtract(st, e, text, created)
    ELSE SaveAndReturn(st, text, OrEmpty(st.locals.context), created)

\* lines 249-358 once the provider has replied
SendReplied(st, d, e, reply, created) ==
    IF reply.kind # "ok" THEN Throw(st, RequestError(reply))
    ELSE SendAnswered([st EXCEPT !.locals.response = reply,
                                 !.locals.toolResults =
                                     ToolResultsOf(d, st.locals.provider, reply)],
                      d, e, ResponseText(st.locals.provider, reply), created)

\* lines 294-341 once extractContext has its reply
SendExtracted(st, reply, created) ==
    SaveAndReturn([st EXCEPT !.locals.extraction =
                      IF ExtractFails(reply) THEN "failed" ELSE "done",
                             !.locals.updates = ContextUpdates(reply)],
                  ResponseText(st.locals.provider, st.locals.response),
                  Spread(st.locals.context, ContextUpdates(reply)), created)

-----------------------------------------------------------------------------
(* The arguments and the environment of sendMessage in the model *)

Hello == <<"h", "i">>
KeyLang == <<"l", "a", "n", "g">>
KeyCity == <<"c", "i", "t", "y">>
SpanishContext == JObj(<<[k |-> KeyLang, v |-> JStr(<<"e", "s">>)]>>)

\* the texts an extraction request is answered with: a new key, a key the
\* context has, a text cut short
NewKeyUpdate == <<"{", Q>> \o KeyCity \o <<Q, ":", Q, "x", Q, "}">>
SameKeyUpdate == <<"{", Q>> \o KeyLang \o <<Q, ":", Q, "e", "n", Q, "}">>
CutUpdate == <<"{", Q>> \o KeyCity

\* JSON.stringify of the values that occur here: strings, true, null and
\* objects of them
RECURSIVE Stringify(_), StringifyMembers(_, _)
Stringify(v) ==
    IF v.t = "str" THEN <<Q>> \o v.s \o <<Q>>
    ELSE IF v.t = "true" THEN <<"t", "r", "u", "e">>
    ELSE IF v.t = "obj" THEN <<"{">> \o StringifyMembers(v.m, Len(v.m)) \o <<"}">>
    ELSE <<"n", "u", "l", "l">>

StringifyMembers(m, n) ==
    IF n = 0 THEN <<>>
    ELSE (IF n = 1 THEN <<>> ELSE StringifyMembers(m, n - 1) \o <<",">>)
            \o <<Q>> \o m[n].k \o <<Q, ":">> \o Stringify(m[n].v)

OneMessage == <<Message("user", Hello)>>

\* the arguments of the sendMessage call of extractContext (lines 636-651)
ExtractCallData(text, response, currentContext) ==
    [model |-> ExtractModel, prompt |-> text, stream |-> FALSE,
     history |-> <<Message("assistant", Stringify(currentContext)),
                   Message("assistant", response)>>,
     context |-> JNull, idChat |-> FALSE, userId |-> FALSE, tools |-> <<>>,
     executeTools |-> FALSE, responseFormat |-> "json_object"]

\* the call extractContext makes in the model
ExtractCall == ExtractCallData(Hello, Hello, SpanishContext)

SendData ==
    [model : {"", "gpt-4.1-nano", "gemini-pro", "llama-3.1-8b-instruct",
              "whisper-large-v3", "modelX"},
     prompt : {<<>>, Hello},
     stream : BOOLEAN,
     history : {<<>>, OneMessage},
     context : {JNull, SpanishContext},
     idChat : BOOLEAN,
     userId : BOOLEAN,
     tools : {<<>>, FullTools},
     executeTools : BOOLEAN,
     responseFormat : {"none", "json_object"}]
        \cup {ExtractCall}

\* what MessageService.getHistory gives, or that it rejects
Stored(ok, ctx) == [ok |-> ok, messages |-> OneMessage, context |-> ctx]

Environments ==
    [credentials : {Providers, {"google"}, {"openai"}},
     stored : {Stored(TRUE, JNull), Stored(TRUE, SpanishContext), Stored(FALSE, JNull)}]

Replies ==
    {Answer(<<>>, <<>>), Answer(Hello, <<>>),
     Answer(<<>>, <<ToolCall("webSearch", QueryArgs), ToolCall("brokenTool", EmptyObject)>>),
     HttpError, NoResponse}

ExtractReplies ==
    {Answer(<<>>, <<>>), Answer(NewKeyUpdate, <<>>), Answer(SameKeyUpdate, <<>>),
     Answer(CutUpdate, <<>>), Answer(NullArgs, <<>>), HttpError, NoResponse}

\* a request that is issued is answered or left without an answer
VendorFor(p) == IF p \in {"await", "awaitExtract"} THEN {"answers", "stalls"} ELSE {"none"}

-----------------------------------------------------------------------------
(* One sendMessage call as a state machine *)

SendNow == SendState(spc, locals, http, writes, thrown, returned)

SendInit ==
    /\ body = <<>> /\ tpc = "idle" /\ turn = <<>> /\ ended = 0 /\ errors = <<>>
    /\ pair = <<>>
    /\ wire = <<>> /\ provider = "none" /\ pos = 0 /\ nchunks = 0 /\ decoder = <<>>
    /\ buffers = <<>> /\ fullMessage = <<>> /\ sse = <<>> /\ onComplete = <<>>
    /\ streamState = "idle"
    /\ toolCalls = <<>> /\ availableTools = <<>> /\ context = JNull
    /\ callIdx = 0 /\ results = <<>> /\ executions = <<>> /\ toolState = "idle"
    /\ given = <<>> /\ contextWindow = 0 /\ estimator = "none" /\ system = <<>>
    /\ history = <<>> /\ prompt = <<>> /\ currentTokens = 0 /\ pc = "idle"
    /\ data \in SendData
    /\ env \in Environments
    /\ spc = "enter"
    /\ locals = <<>>
    /\ vendor = "none"
    /\ http = <<>>
    /\ writes = <<>>
    /\ thrown = <<>>
    /\ returned = <<>>

\* sendMessage runs up to its request (or throws before it)
SendCall ==
    /\ spc = "enter"
    /\ \E st \in {SendUntilPost(SendNow, data, env)} :
        /\ spc' = st.spc /\ locals' = st.locals /\ http' = st.http
        /\ writes' = st.writes /\ thrown' = st.thrown /\ returned' = st.returned
        /\ vendor' \in VendorFor(st.spc)
    /\ UNCHANGED <<data, env, streamVars, toolVars, adjustVars, turnVars, pair>>

\* the provider replies, and sendMessage runs to its end or to the request
\* of extractContext
SendResponse ==
    /\ spc = "await"
    /\ vendor = "answers"
    /\ \E reply \in Replies, created \in BOOLEAN :
        \E st \in {SendReplied(SendNow, data, env, reply, created)} :
            /\ spc' = st.spc /\ locals' = st.locals /\ http' = st.http
            /\ writes' = st.writes /\ thrown' = st.thrown /\ returned' = st.returned
            /\ vendor' \in VendorFor(st.spc)
    /\ UNCHANGED <<data, env, streamVars, toolVars, adjustVars, turnVars, pair>>

\* the provider replies to the request of extractContext
SendExtractResponse ==
    /\ spc = "awaitExtract"
    /\ vendor = "answers"
    /\ \E reply \in ExtractReplies, created \in BOOLEAN :
        \E st \in {SendExtracted(SendNow, reply, created)} :
            /\ spc' = st.spc /\ locals' = st.locals /\ http' = st.http
            /\ writes' = st.writes /\ thrown' = st.thrown /\ returned' = st.returned
            /\ vendor' \in VendorFor(st.spc)
    /\ UNCHANGED <<data, env, streamVars, toolVars, adjustVars, turnVars, pair>>

SendNext == SendCall \/ SendResponse \/ SendExtractResponse

SendSpec == SendInit /\ [][SendNext]_vars

\* the event loop runs the continuation of an awaited request once its
\* response is there
SendFair == SendSpec /\ WF_vars(SendNext)

-----------------------------------------------------------------------------
(* handleAiMessage: one turn of a conversation over server-sent events.     *)
(* The awaits on the message store are taken together with the code around  *)
(* them; the awaits on a provider are the steps of the turn.                *)

KeyUserId == <<"u", "s", "e", "r", "I", "d">>
KeyData == <<"d", "a", "t", "a">>

\* the tools array of lines 898-1164 (some of it); which executors throw is
\* the environment's matter
TurnTools ==
    <<ToolDef("createFoundryProject", "returns", ""),
      ToolDef("createSmartContract", "returns", ""),
      ToolDef("compileFoundryProject", "throws", "forge build failed"),
      ToolDef("webSearch", "returns", "")>>

\* the locals of a turn
InitialTurn ==
    [context |-> JNull, messages |-> <<>>, toolCalls |-> <<>>, toolResults |-> <<>>,
     executions |-> <<>>, extraction |-> "none", fullMessage |-> <<>>]

\* the state of one turn
TurnState(p, l, events, h, w, n, errs) ==
    [tpc |-> p, turn |-> l, sse |-> events, http |-> h, writes |-> w, ended |-> n,
     errors |-> errs]

\* what kind of failure an error thrown by sendMessage is
FailureKind(parts) ==
    IF Len(parts) < 2 THEN "other"
    ELSE IF parts[2] \in {"Model info not found for: ", "Auth token not found for provider: "}
    THEN "resolution"
    ELSE IF parts[2] = "API Error" THEN "http"
    ELSE IF parts[2] = "No response from API provider." THEN "transport"
    ELSE "other"

\* logger.error(where, error); requests is the number of provider requests
\* issued before the failure
Logged(T, where, parts) ==
    [T EXCEPT !.errors = Append(@, [where |-> where, kind |-> FailureKind(parts),
                                    message |-> parts, requests |-> Len(T.http)])]

\* the error event of the catch block (lines 1468-1471)
TurnErrorEvent(parts) == [type |-> "error", error |-> parts]

\* the catch block of the turn (lines 1464-1476): the error event, res.end()
TurnCatch(T, parts) ==
    [Logged(T, "handler", parts) EXCEPT !.sse = Append(@, TurnErrorEvent(parts)),
                                        !.ended = @ + 1,
                                        !.tpc = "closed"]

\* a sendMessage call of the turn, up to its request
TurnSend(T, d, e) == SendUntilPost(SendState("enter", <<>>, T.http, <<>>, <<>>, <<>>), d, e)

\* the arguments of the streaming call (lines 1351-1357)
StreamCallData(b, T) ==
    [model |-> b.model, prompt |-> b.prompt, stream |-> TRUE,
     history |-> T.turn.messages, context |-> JNull, idChat |-> FALSE,
     userId |-> FALSE, tools |-> <<>>, executeTools |-> FALSE,
     responseFormat |-> "none"]

\* lines 1351-1357 given how far sendMessage got: it threw, or its request
\* is pending
StreamCalled(T, st) ==
    IF st.spc = "threw" THEN TurnCatch(T, st.thrown)
    ELSE [T EXCEPT !.http = st.http, !.tpc = "awaitStream"]

\* the streaming call is made
StartStream(T, b, e) == StreamCalled(T, TurnSend(T, StreamCallData(b, T), e))

\* the arguments of the tool check (lines 1263-1271)
ToolCheckData(b, T) ==
    [model |-> b.model, prompt |-> b.prompt, stream |-> FALSE,
     history |-> T.turn.messages, context |-> JNull, idChat |-> FALSE,
     userId |-> FALSE, tools |-> TurnTools, executeTools |-> FALSE,
     responseFormat |-> "none"]

\* the catch block of the tool check (lines 1344-1347): the error is logged
\* and the turn goes on to the streaming call
ToolCheckFailed(T, b, e, parts) == StartStream(Logged(T, "toolCheck", parts), b, e)

\* lines 1263-1271 given how far sendMessage got
ToolCheckCalled(T, b, e, st) ==
    IF st.spc = "threw" THEN ToolCheckFailed(T, b, e, st.thrown)
    ELSE [T EXCEPT !.http = st.http, !.tpc = "awaitToolCheck"]

StartToolCheck(T, b, e) == ToolCheckCalled(T, b, e, TurnSend(T, ToolCheckData(b, T), e))

\* the user message of lines 1223-1230
UserMessage(text) == [role |-> "user", text |-> text, context |-> JNull, toolResults |-> <<>>]

\* lines 1237-1357 once the user message is stored: the history and the
\* context are read, and the first provider call is made
TurnLoaded(T, b, e) ==
    IF ~e.stored.ok THEN TurnCatch(T, <<"getHistory failed">>)
    ELSE IF b.executeTools
    THEN StartToolCheck([T EXCEPT !.turn.context = e.stored.context,
                                  !.turn.messages = e.stored.messages], b, e)
    ELSE StartStream([T EXCEPT !.turn.context = e.stored.context,
                               !.turn.messages = e.stored.messages], b, e)

\* lines 1189-1357: the user message is stored (or the store rejects, which
\* the handler rethrows into its catch block)
TurnStarted(T, b, e, created) ==
    IF ~created THEN TurnCatch(T, <<"create failed">>)
    ELSE TurnLoaded([T EXCEPT !.writes = Append(@, UserMessage(b.prompt))], b, e)

\* the userId the handler is called with
TurnUserId == JStr(<<"u", "1">>)

\* the context handed to executeToolCalls (lines 1274-1277)
ToolContext(b) ==
    JObj(<<[k |-> KeyUserId, v |-> TurnUserId], [k |-> KeyIdProject, v |-> b.idProject]>>)

\* lines 1292-1309 on the parsed arguments of a call
PrePassArgs(name, args, b) ==
    IF name = "createFoundryProject" THEN
        IF Truthy(b.idProject)
        THEN SetMember(SetMember(SetMember(args, KeyUserId, TurnUserId),
                                 KeyUpdateExisting, JTrue),
                       KeyIdProject, b.idProject)
        ELSE SetMember(args, KeyUserId, TurnUserId)
    ELSE IF name \in ProjectTools /\ Truthy(b.idProject)
                /\ ~Truthy(Member(args, KeyProjectId))
    THEN SetMember(args, KeyProjectId, b.idProject)
    ELSE args

\* whether lines 1292-1309 throw: a property of null is written or read, or
\* one of a primitive is written
PrePassThrows(name, args, b) ==
    /\ args.t = "null" \/ IsPrimitive(args)
    /\ name = "createFoundryProject" \/ (name \in ProjectTools /\ Truthy(b.idProject))

\* one iteration of the loop of lines 1285-1316, given the outcome of
\* JSON.parse; an error leaves the call as it is (line 1313)
PrePassCall(call, parsed, b) ==
    IF ~parsed.ok \/ PrePassThrows(call.function.name, parsed.v, b) THEN call
    ELSE ToolCall(call.function.name,
                  Stringify(PrePassArgs(call.function.name, parsed.v, b)))

PrePass(calls, b) ==
    [i \in DOMAIN calls |-> PrePassCall(calls[i], JsonParse(calls[i].function.arguments), b)]

\* lines 1323-1329: toolResults by tool name, the last result of a name
ResultValue(r) ==
    IF r.status = "success" THEN r.result ELSE [error |-> r.error]

LastOf(res, name) ==
    CHOOSE i \in DOMAIN res :
        res[i].name = name /\ \A j \in DOMAIN res : res[j].name = name => j <= i

ToolResultsObject(res) ==
    [name \in {res[i].name : i \in DOMAIN res} |-> ResultValue(res[LastOf(res, name)])]

\* tool events with the last result first
ToolEventsLastFirst(res) ==
    [i \in DOMAIN res |-> [type |-> "tool", data |-> res[Len(res) + 1 - i]]]

\* lines 1332-1334
ToolEvents(res) == [i \in DOMAIN res |-> [type |-> "tool", data |-> res[i]]]

\* lines 1320-1334 given what executeToolCalls did
WithToolResults(T, run) ==
    [T EXCEPT !.turn.toolResults = ToolResultsObject(run.results),
              !.turn.executions = run.executions,
              !.sse = @ \o ToolEvents(run.results)]

\* lines 1273-1357 once the provider has replied to the tool check
ToolCheckReplied(T, b, e, reply) ==
    IF reply.kind # "ok" THEN ToolCheckFailed(T, b, e, RequestError(reply))
    ELSE IF reply.toolCalls = <<>> THEN StartStream(T, b, e)
    ELSE StartStream(WithToolResults([T EXCEPT !.turn.toolCalls = reply.toolCalls],
                                     RunAll(PrePass(reply.toolCalls, b), TurnTools,
                                            ToolContext(b))),
                     b, e)

\* lines 1351-1360 once the provider has replied to the streaming call
StreamReplied(T, reply) ==
    IF reply.kind # "ok" THEN TurnCatch(T, RequestError(reply))
    ELSE [T EXCEPT !.tpc = "streaming"]

\* setTimeout(() => res.end(), 500)
Close(T) == [T EXCEPT !.ended = @ + 1, !.tpc = "closed"]

\* lines 1423-1435 given the outcome of JSON.parse(fullMessage); reading
\* .data of null throws
ResponseEvent(parsed, full) ==
    IF parsed.ok /\ parsed.v.t # "null"
    THEN [type |-> "response", data |-> Member(parsed.v, KeyData)]
    ELSE [type |-> "error",
          error |-> <<"No se pudo parsear la porcion data de la respuesta">>,
          raw |-> full]

\* lines 1438-1456 given what the project lookup gives
ProjectEvent(project) ==
    IF project = "found" THEN [type |-> "project"]
    ELSE IF project = "missing" THEN [type |-> "warning"]
    ELSE [type |-> "error", error |-> <<"Error al consultar la campana">>,
          details |-> <<"lookup failed">>]

\* lines 1373-1459 once extractContext has returned: the assistant message
\* is created (a rejected create is logged, line 1413), the response and the
\* project are emitted and the response is closed
Saved(T, updates, created, project) ==
    Close([T EXCEPT !.writes =
                        IF created
                        THEN Append(@, AssistantMessage(T.turn.fullMessage,
                                                        Spread(T.turn.context, updates),
                                                        T.turn.toolResults))
                        ELSE @,
                    !.sse = @ \o <<ResponseEvent(JsonParse(T.turn.fullMessage),
                                                 T.turn.fullMessage),
                                   ProjectEvent(project)>>])

\* extractContext without its catch block: the error reaches the catch
\* block of the turn
ExtractFatal(T, parts, created, project) ==
    TurnCatch([Logged(T, "extractContext", parts) EXCEPT !.turn.extraction = "failed"],
              parts)

\* extractContext ends in its catch block (lines 659-663)
ExtractCaught(T, parts, created, project) ==
    Saved([Logged(T, "extractContext", parts) EXCEPT !.turn.extraction = "failed"],
          NoUpdates, created, project)

\* line 1372: extractContext calls sendMessage, which issues its request or
\* throws at the model resolution
ExtractCalled(T, e, created, project) ==
    IF solveModelInfo(ExtractModel, e.credentials).ok
    THEN [T EXCEPT !.http = Append(@, ExtractRequest(T.turn.fullMessage, T.turn.context)),
                   !.turn.extraction = "pending",
                   !.tpc = "awaitExtract"]
    ELSE ExtractCaught(T, Wrapped(solveModelInfo(ExtractModel, e.credentials).error),
                       created, project)

\* an onComplete that saves whatever the stream gave
CompletedUnguarded(T, e, full, created, project) ==
    ExtractCalled([T EXCEPT !.turn.fullMessage = full], e, created, project)

\* onComplete(fullMessage) (lines 1364-1460), up to the request of
\* extractContext
Completed(T, e, full, created, project) ==
    IF full = <<>> THEN Close(T)
    ELSE ExtractCalled([T EXCEPT !.turn.fullMessage = full], e, created, project)

\* lines 1372-1459 once the provider has replied to extractContext
ExtractReplied(T, reply, created, project) ==
    IF ExtractFails(reply)
    THEN ExtractCaught(T, IF reply.kind = "ok" THEN <<"SyntaxError">>
                          ELSE RequestError(reply),
                       created, project)
    ELSE Saved([T EXCEPT !.turn.extraction = "done"], ContextUpdates(reply),
               created, project)

\* the end handler with the tool results of the turn (lines 390-415, 1461),
\* then onComplete
TurnStreamEnded(T, e, r, created, project) ==
    Completed([T EXCEPT !.sse = Append(r.sse, FinishedEvent(r.fullMessage,
                                                            T.turn.toolResults))],
              e, r.fullMessage, created, project)

\* the error handler (lines 417-421): the error event, onComplete('') which
\* sets the timer that closes the response, and the rejection, which the
\* catch block of the turn receives before the timer fires
TurnStreamFailed(T, p) ==
    Close(TurnCatch([T EXCEPT !.sse = Append(@, ErrorEvent(p, "stream error"))],
                    <<"stream error">>))

-----------------------------------------------------------------------------
(* The requests and the environment of a turn in the model *)

ProjectOne == JStr(<<"p", "1">>)

Bodies ==
    [model : {"gpt-4.1-nano", "gemini-pro", "modelX"},
     prompt : {Hello},
     idProject : {JNull, ProjectOne},
     executeTools : BOOLEAN]

\* arguments in which the model names a user of its own
OtherUserArgs == <<"{", Q>> \o KeyUserId \o <<Q, ":", Q, "u", "2", Q, "}">>

\* what the tool check is answered with
ToolCheckReplies ==
    {Answer(<<>>, <<>>),
     Answer(<<>>, <<ToolCall("webSearch", QueryArgs)>>),
     Answer(<<>>, <<ToolCall("compileFoundryProject", EmptyObject),
                    ToolCall("createSmartContract", ProjectArgs)>>),
     Answer(<<>>, <<ToolCall("foo", EmptyObject),
                    ToolCall("createFoundryProject", NullArgs),
                    ToolCall("createFoundryProject", EmptyObject)>>),
     Answer(<<>>, <<ToolCall("createFoundryProject", OtherUserArgs),
                    ToolCall("createFoundryProject", TrueArgs)>>),
     HttpError, NoResponse}

\* what the streaming call is answered with: a stream, or a failure
StreamReplies == {Answer(<<>>, <<>>), HttpError, NoResponse}

\* the streams: a text that is no JSON, a text that is, and no text
TurnStreams ==
    {Frame(Unit(<<"a">>)) \o Frame(Sentinel),
     Frame(Unit(<<"{", "}">>)),
     Frame(RoleUnit)}

ProjectLookups == {"found", "missing", "fails"}

TurnAwaiting == {"awaitToolCheck", "awaitStream", "awaitExtract"}
TurnVendorFor(p) == IF p \in TurnAwaiting THEN {"answers", "stalls"} ELSE {"none"}

-----------------------------------------------------------------------------
(* One handleAiMessage turn as a state machine *)

TurnNow == TurnState(tpc, turn, sse, http, writes, ended, errors)

TurnInit ==
    /\ toolCalls = <<>> /\ availableTools = <<>> /\ context = JNull
    /\ callIdx = 0 /\ results = <<>> /\ executions = <<>> /\ toolState = "idle"
    /\ given = <<>> /\ contextWindow = 0 /\ estimator = "none" /\ system = <<>>
    /\ history = <<>> /\ prompt = <<>> /\ currentTokens = 0 /\ pc = "idle"
    /\ data = <<>> /\ spc = "idle" /\ locals = <<>> /\ thrown = <<>> /\ returned = <<>>
    /\ wire = <<>> /\ provider = "none" /\ pos = 0 /\ nchunks = 0 /\ decoder = <<>>
    /\ buffers = <<>> /\ fullMessage = <<>> /\ onComplete = <<>>
    /\ streamState = "idle"
    /\ body \in Bodies
    /\ env \in Environments
    /\ tpc = "enter"
    /\ turn = InitialTurn
    /\ sse = <<>>
    /\ http = <<>>
    /\ writes = <<>>
    /\ ended = 0
    /\ errors = <<>>
    /\ vendor = "none"
    /\ pair = <<>>

\* the handler runs up to its first provider request
TurnEnter ==
    /\ tpc = "enter"
    /\ \E created \in BOOLEAN :
        \E T \in {TurnStarted(TurnNow, body, env, created)} :
            /\ tpc' = T.tpc /\ turn' = T.turn /\ sse' = T.sse /\ http' = T.http
            /\ writes' = T.writes /\ ended' = T.ended /\ errors' = T.errors
            /\ vendor' \in TurnVendorFor(T.tpc)
    /\ UNCHANGED <<body, env, data, spc, locals, thrown, returned,
                   wire, pos, nchunks, provider, decoder, buffers, fullMessage,
                   onComplete, streamState, toolVars, adjustVars, pair>>

\* the provider replies to the tool check
TurnToolCheckResponse ==
    /\ tpc = "awaitToolCheck"
    /\ vendor = "answers"
    /\ \E reply \in ToolCheckReplies :
        \E T \in {ToolCheckReplied(TurnNow, body, env, reply)} :
            /\ tpc' = T.tpc /\ turn' = T.turn /\ sse' = T.sse /\ http' = T.http
            /\ writes' = T.writes /\ ended' = T.ended /\ errors' = T.errors
            /\ vendor' \in TurnVendorFor(T.tpc)
    /\ UNCHANGED <<body, env, data, spc, locals, thrown, returned,
                   wire, pos, nchunks, provider, decoder, buffers, fullMessage,
                   onComplete, streamState, toolVars, adjustVars, pair>>

\* the provider replies to the streaming call; processStreamingResponse
\* starts on the stream it sends
TurnStreamResponse ==
    /\ tpc = "awaitStream"
    /\ vendor = "answers"
    /\ \E reply \in StreamReplies, w \in TurnStreams :
        \E T \in {StreamReplied(TurnNow, reply)} :
            /\ tpc' = T.tpc /\ turn' = T.turn /\ sse' = T.sse /\ http' = T.http
            /\ writes' = T.writes /\ ended' = T.ended /\ errors' = T.errors
            /\ wire' = IF T.tpc = "streaming" THEN w ELSE wire
            /\ provider' = IF T.tpc = "streaming" THEN ProviderOf(body.model) ELSE provider
            /\ buffers' = IF T.tpc = "streaming" THEN FreshStream.buffers ELSE buffers
            /\ streamState' = IF T.tpc = "streaming" THEN "open" ELSE streamState
    /\ vendor' = "none"
    /\ UNCHANGED <<body, env, data, spc, locals, thrown, returned,
                   pos, nchunks, decoder, fullMessage, onComplete,
                   toolVars, adjustVars, pair>>

\* the 'end' event of the stream of the turn
TurnStreamEnd ==
    /\ tpc = "streaming"
    /\ streamState = "open"
    /\ pos = Len(wire)
    /\ \E created \in BOOLEAN, project \in ProjectLookups :
        \E r \in {HandleDecoded([text |-> DecoderEnd(decoder), pending |-> <<>>],
                                provider, StreamLocals)} :
            /\ decoder' = r.decoder
            /\ buffers' = r.buffers
            /\ fullMessage' = r.fullMessage
            /\ onComplete' = Append(onComplete, r.fullMessage)
            /\ \E T \in {TurnStreamEnded(TurnNow, env, r, created, project)} :
                /\ tpc' = T.tpc /\ turn' = T.turn /\ sse' = T.sse /\ http' = T.http
                /\ writes' = T.writes /\ ended' = T.ended /\ errors' = T.errors
                /\ vendor' \in TurnVendorFor(T.tpc)
    /\ streamState' = "ended"
    /\ UNCHANGED <<body, env, data, spc, locals, thrown, returned,
                   wire, pos, nchunks, provider, toolVars, adjustVars, pair>>

\* the 'error' event of the stream of the turn
TurnStreamError ==
    /\ tpc = "streaming"
    /\ streamState = "open"
    /\ \E T \in {TurnStreamFailed(TurnNow, provider)} :
        /\ tpc' = T.tpc /\ turn' = T.turn /\ sse' = T.sse /\ http' = T.http
        /\ writes' = T.writes /\ ended' = T.ended /\ errors' = T.errors
    /\ onComplete' = Append(onComplete, <<>>)
    /\ streamState' = "errored"
    /\ UNCHANGED <<body, env, data, spc, locals, thrown, returned, vendor,
                   wire, pos, nchunks, provider, decoder, buffers, fullMessage,
                   toolVars, adjustVars, pair>>

\* the provider replies to the request of extractContext
TurnExtractResponse ==
    /\ tpc = "awaitExtract"
    /\ vendor = "answers"
    /\ \E reply \in ExtractReplies, created \in BOOLEAN, project \in ProjectLookups :
        \E T \in {ExtractReplied(TurnNow, reply, created, project)} :
            /\ tpc' = T.tpc /\ turn' = T.turn /\ sse' = T.sse /\ http' = T.http
            /\ writes' = T.writes /\ ended' = T.ended /\ errors' = T.errors
    /\ vendor' = "none"
    /\ UNCHANGED <<body, env, data, spc, locals, thrown, returned,
                   wire, pos, nchunks, provider, decoder, buffers, fullMessage,
                   onComplete, streamState, toolVars, adjustVars, pair>>

\* a 'data' event of the stream of the turn
TurnStreamData == tpc = "streaming" /\ StreamData

TurnNext ==
    \/ TurnEnter
    \/ TurnToolCheckResponse
    \/ TurnStreamResponse
    \/ TurnStreamData
    \/ TurnStreamEnd
    \/ TurnStreamError
    \/ TurnExtractResponse

TurnSpec == TurnInit /\ [][TurnNext]_vars

-----------------------------------------------------------------------------
(* MessageService.getHistory (message.service.js, lines 5-33).  writes holds *)
(* the messages stored for the chat and thread, the oldest first.            *)

\* take: 20 (line 16)
Take == 20

RECURSIVE Reverse(_)
\* Array.prototype.reverse
Reverse(s) == IF s = <<>> THEN <<>> ELSE Append(Reverse(Tail(s)), Head(s))

\* findMany of lines 8-17: the messages by createdAt descending, at most
\* Take of them
findMany(stored) ==
    LET newestFirst == Reverse(stored)
    IN  SubSeq(newestFirst, 1, IF Len(newestFirst) < Take THEN Len(newestFirst) ELSE Take)

RECURSIVE FindWithContext(_, _)
\* Array.prototype.find with message => message.metas.context, from index i
FindWithContext(messages, i) ==
    IF i > Len(messages) THEN [found |-> FALSE, message |-> <<>>]
    ELSE IF Truthy(messages[i].context) THEN [found |-> TRUE, message |-> messages[i]]
    ELSE FindWithContext(messages, i + 1)

\* lines 20-21: reverse() turns the array around, find() takes the first hit
lastMessageWithMeta(messages) == FindWithContext(Reverse(messages), 1)

\* lines 24-32; reverse() has turned the array itself around
getHistory(stored) ==
    LET messages == findMany(stored)
        last == lastMessageWithMeta(messages)
    IN  [messages |-> [n \in DOMAIN messages |->
                          Message(Reverse(messages)[n].role, Reverse(messages)[n].text)],
         context |-> IF last.found THEN last.message.context ELSE JNull]

\* a stored message: role, text and metas.context (null when it has none)
StoredMessage(role, text, ctx) == [role |-> role, text |-> text, context |-> ctx]

ProjectContext == JObj(<<[k |-> KeyIdProject, v |-> JStr(<<"p", "1">>)]>>)

StoredMessages ==
    {StoredMessage("user", Hello, JNull),
     StoredMessage("assistant", Hello, SpanishContext),
     StoredMessage("assistant", Hello, ProjectContext)}

\* n messages of the user
UserMessages(n) == [k \in 1..n |-> StoredMessage("user", Hello, JNull)]

ShortThreads == UNION {[1..n -> StoredMessages] : n \in 0..2}

\* the threads: short ones, and ones longer than Take
Threads ==
    {old \o UserMessages(n) \o new :
        old \in ShortThreads, new \in ShortThreads, n \in {0, Take - 2, Take}}

HistoryInit ==
    /\ body = <<>> /\ tpc = "idle" /\ turn = <<>> /\ ended = 0 /\ errors = <<>>
    /\ pair = <<>>
    /\ data = <<>> /\ env = <<>> /\ locals = <<>> /\ vendor = "none"
    /\ http = <<>> /\ thrown = <<>>
    /\ wire = <<>> /\ provider = "none" /\ pos = 0 /\ nchunks = 0 /\ decoder = <<>>
    /\ buffers = <<>> /\ fullMessage = <<>> /\ sse = <<>> /\ onComplete = <<>>
    /\ streamState = "idle"
    /\ toolCalls = <<>> /\ availableTools = <<>> /\ context = JNull
    /\ callIdx = 0 /\ results = <<>> /\ executions = <<>> /\ toolState = "idle"
    /\ given = <<>> /\ contextWindow = 0 /\ estimator = "none" /\ system = <<>>
    /\ history = <<>> /\ prompt = <<>> /\ currentTokens = 0 /\ pc = "idle"
    /\ writes \in Threads
    /\ spc = "enter"
    /\ returned = <<>>

\* one getHistory call
HistoryGet ==
    /\ spc = "enter"
    /\ returned' = getHistory(writes)
    /\ spc' = "fetched"
    /\ UNCHANGED <<data, env, locals, vendor, http, writes, thrown,
                   streamVars, toolVars, adjustVars, turnVars, pair>>

HistoryNext == HistoryGet

HistorySpec == HistoryInit /\ [][HistoryNext]_vars

-----------------------------------------------------------------------------
(* Properties of the stream parser *)

IsContent(e) == "data" \in DOMAIN e
IsComplete(e) == e.type = "complete"
IsSentinelEvent(e) == e = SentinelEvent
HasFullMessage(e) == "fullMessage" \in DOMAIN e

ContentEvents(events) == SelectSeq(events, IsContent)
CompleteEvents(events) == SelectSeq(events, IsComplete)

\* the concatenation of the texts of the content events among the first n events
RECURSIVE ContentText(_, _)
ContentText(events, n) ==
    IF n = 0 THEN <<>>
    ELSE IF IsContent(events[n])
    THEN ContentText(events, n - 1) \o events[n].data.content
    ELSE ContentText(events, n - 1)

\* the providers whose units processLine reads
Parsed == provider \in {"openai", "openrouter"}

\* the whole of a byte sequence delivered in one 'data' event, then 'end'
WholeRun(w, p) == EndHandler(p, DataHandler(w, p, FreshStream))

\* the payload lines of a byte sequence, as processLine sees them when no
\* line is cut by a chunk boundary
ActualLines(w) ==
    [k \in DOMAIN Split(Decode(w).text) |->
        IF StartsWith(Split(Decode(w).text)[k], dataPrefix)
        THEN Substring(Split(Decode(w).text)[k], Len(dataPrefix))
        ELSE Split(Decode(w).text)[k]]

\* the byte sequence has a '[DONE]' line
DeliversSentinel(w) == \E k \in DOMAIN ActualLines(w) : Trim(ActualLines(w)[k]) = Sentinel

\* position of the first sentinel event among the events (0 if none)
SentinelAt(events) ==
    IF \E i \in DOMAIN events : IsSentinelEvent(events[i])
    THEN CHOOSE i \in DOMAIN events :
            /\ IsSentinelEvent(events[i])
            /\ \A j \in 1 .. (i - 1) : ~IsSentinelEvent(events[j])
    ELSE 0

\* C1: for a fixed byte sequence of an openai/openrouter stream, the content
\* events and the accumulated fullMessage are the same whether the bytes
\* arrive in one chunk or are split into several chunks at any byte boundary.
C1_ChunkingInvariance ==
    (streamState = "ended" /\ Parsed) =>
        /\ ContentEvents(sse) = ContentEvents(WholeRun(wire, provider).sse)
        /\ fullMessage = WholeRun(wire, provider).fullMessage

\* C7: a stream that delivers the '[DONE]' sentinel and then ends emits
\* exactly one complete event over the whole stream.
C7_ExactlyOneComplete ==
    (streamState = "ended" /\ DeliversSentinel(wire)) => Len(CompleteEvents(sse)) = 1

\* C8: once the '[DONE]' sentinel line has been processed, no further content
\* event is emitted for the stream and fullMessage no longer grows: no
\* content event follows the sentinel's event, and fullMessage stays the
\* text accumulated up to the sentinel.
C8_NoContentAfterSentinel ==
    SentinelAt(sse) > 0 =>
        /\ \A j \in DOMAIN sse : j > SentinelAt(sse) => ~IsContent(sse[j])
        /\ fullMessage = ContentText(sse, SentinelAt(sse))

\* C9: the complete event emitted when the sentinel line is read carries the
\* full concatenation, in emission order, of the text of all content deltas
\* emitted for the stream so far.
C9_SentinelCompleteCarriesFullMessage ==
    \A i \in DOMAIN sse :
        IsSentinelEvent(sse[i]) =>
            /\ HasFullMessage(sse[i])
            /\ sse[i].fullMessage = ContentText(sse, i - 1)

\* the streams that start with a line that can never be parsed, and the
\* contents of the well-formed units that follow it, in order
AfterBadLine(w) ==
    IF w = WireBadThenUnits THEN <<"b", "a">>
    ELSE IF w = WireBadThenWhole THEN <<"a">>
    ELSE <<>>

\* C10: a line that can never be parsed is skipped, and every well-formed
\* unit that arrives after it, whole in one line or split across several
\* lines, still produces its content event (here with the stream delivered
\* in one chunk, so that no line is cut by a chunk boundary).
C10_UnitsAfterBadLineEmitted ==
    (streamState = "ended" /\ Parsed /\ nchunks = 1
        /\ wire \in {WireBadThenUnits, WireBadThenWhole}) =>
        ContentText(sse, Len(sse)) = AfterBadLine(wire)

-----------------------------------------------------------------------------
(* Properties of executeToolCalls *)

NameOf(k) == toolCalls[k].function.name
ArgumentsOf(k) == toolCalls[k].function.arguments

\* the k-th call names a tool that the available definitions have
Registered(k) == \E n \in DOMAIN availableTools : availableTools[n].function.name = NameOf(k)

\* the definition the k-th call names (the first of that name)
DefinitionOf(k) ==
    availableTools[CHOOSE n \in DOMAIN availableTools :
        /\ availableTools[n].function.name = NameOf(k)
        /\ \A m \in 1 .. (n - 1) : availableTools[m].function.name # NameOf(k)]

ValidJson(k) == JsonParse(ArgumentsOf(k)).ok

\* the k-th call gets as far as the executor check with usable arguments
ArgumentsUsable(k) ==
    ValidJson(k) /\ ~Inject(NameOf(k), JsonParse(ArgumentsOf(k)).v, context).threw

Runnable(k) == Registered(k) /\ ArgumentsUsable(k) /\ DefinitionOf(k).executor # "none"
Throwing(k) == Runnable(k) /\ DefinitionOf(k).executor = "throws"

Executed(k) == \E n \in DOMAIN executions : executions[n].call = k

\* a sequence without its k-th element
RemoveAt(seq, k) == SubSeq(seq, 1, k - 1) \o SubSeq(seq, k + 1, Len(seq))

\* C2: executeToolCalls returns exactly one result per call, in input order:
\* after every iteration there is one result per call gone through, result i
\* carries the name of call i, and the returned list is as long as the input.
C2_OneResultPerCall ==
    /\ Len(results) = callIdx
    /\ \A i \in DOMAIN results : results[i].name = NameOf(i)
    /\ toolState = "returned" => Len(results) = Len(toolCalls)

\* a returned list of three calls: an unknown tool, a success and a failure
\* of another kind
C2_Witness ==
    /\ toolState = "returned"
    /\ Len(results) = 3
    /\ \E i, j, k \in DOMAIN results :
        /\ results[i].status = "error" /\ results[i].error = "Tool not found"
        /\ results[j].status = "success"
        /\ results[k].status = "error" /\ results[k].error # "Tool not found"

\* C3: if call k names a tool absent from the available definitions, or its
\* argument payload is no valid JSON, result k has status error, no executor
\* is invoked for call k, and every other call's result is what the list
\* without call k gives.
C3_FailedCallIsolated ==
    \A k \in DOMAIN results :
        (~Registered(k) \/ ~ValidJson(k)) =>
            /\ results[k].status = "error"
            /\ ~Executed(k)
            /\ toolState = "returned" =>
                RemoveAt(results, k)
                    = RunAll(RemoveAt(toolCalls, k), availableTools, context).results

\* a returned list with an unknown tool, then a registered tool with an
\* unparsable payload, then a call that succeeds
C3_Witness ==
    /\ toolState = "returned"
    /\ \E i, j, k \in DOMAIN results :
        /\ i < j /\ j < k
        /\ ~Registered(i)
        /\ Registered(j) /\ ~ValidJson(j)
        /\ results[k].status = "success"

\* C4: if the executor of call k throws, result k has status error and
\* carries the thrown message, executeToolCalls does not throw, and every
\* call after k is still gone through (it has a result, and its executor is
\* invoked if it has one and its arguments are usable).
C4_ExecutorThrowContained ==
    /\ toolState # "threw"
    /\ \A k \in 1 .. callIdx :
        Throwing(k) =>
            /\ k \in DOMAIN results
            /\ results[k].status = "error"
            /\ results[k].error = DefinitionOf(k).message
            /\ toolState = "returned" =>
                \A j \in (k + 1) .. Len(toolCalls) :
                    /\ j \in DOMAIN results
                    /\ Runnable(j) => Executed(j)

\* a returned list in which an executor threw and a later call succeeded
C4_Witness ==
    /\ toolState = "returned"
    /\ \E k, j \in DOMAIN results :
        /\ k < j
        /\ Throwing(k)
        /\ results[j].status = "success"

-----------------------------------------------------------------------------
(* Properties of adjustContent *)

\* the estimate of the arguments, and of the triple as it stands
GivenEstimate ==
    estimateTokens(MessagesForEstimation(given.system, given.history, given.prompt), estimator)
TripleEstimate ==
    estimateTokens(MessagesForEstimation(system, history, prompt), estimator)

Returned == pc = "done"

\* a text cut from its tail toward the floor: shorter than it was if it was
\* above the floor, and never below the floor
TowardFloor(before, after) ==
    /\ after.id = before.id
    /\ after.len <= before.len
    /\ after.len >= Min(before.len, KeepAtLeast)
    /\ before.len > KeepAtLeast => after.len < before.len

\* what the trimming blocks do to a text once the history is empty and the
\* estimate still exceeds the target: a text longer than 200 characters is
\* cut, to no less than 100 characters, and a shorter one is left as it is
CutIfLong(before, after) ==
    /\ after.id = before.id
    /\ IF before.len > TrimThreshold
       THEN after.len < before.len /\ after.len >= KeepAtLeast
       ELSE after = before

IsSuffix(hist, of) ==
    \E k \in 0 .. Len(of) : hist = SubSeq(of, k + 1, Len(of))

\* C6: the history of adjustContent is at every step, and so when it is
\* returned, a suffix of the input history: entries leave from the oldest end
\* only, and the entries left keep their order and content.
C6_HistoryIsSuffix == IsSuffix(history, given.history)

\* a returned history that lost some of its messages and kept others
C6_Witness ==
    /\ Returned
    /\ Len(history) > 0
    /\ Len(history) < Len(given.history)

\* C15: every adjustContent call terminates and returns its triple, whatever
\* the texts, the history, the context window and the estimator, also when
\* promptTokensEstimate throws and the estimate is the character count over
\* four, and when the budget is not met with the history empty and the texts
\* at their floors.
C15_AdjustTerminates == <>Returned

\* a call whose estimator throws has emptied the history, cut the system and
\* returned
C15_Witness ==
    /\ Returned
    /\ estimator.throws
    /\ given.history # <<>> /\ history = <<>>
    /\ system.len < given.system.len

\* a call has returned over its budget with nothing left to trim
C15_OverBudgetReturned ==
    /\ Returned
    /\ TripleEstimate > targetTokens
    /\ given.history # <<>> /\ history = <<>>
    /\ system.len < given.system.len /\ prompt.len < given.prompt.len

OnLongConversation == given = LongConversation /\ contextWindow = 4096

\* C16 as stated: on the long conversation with a context window of 4096,
\* adjustContent returns fewer than 50 history entries and a triple whose
\* estimate is at most 4046.
C16_LongConversationTrimmed ==
    (Returned /\ OnLongConversation) =>
        /\ Len(history) < Len(given.history)
        /\ TripleEstimate <= targetTokens

\* C16 amended: on the long conversation with a context window of 4096 the
\* target is 4046 and the returned triple fits it with system and prompt
\* untouched and a suffix of the history.  With the fallback estimate, which
\* is 2650, and with a tokenizer of four or five characters per token, all
\* 50 history entries are returned; entries are removed only when the
\* estimate of the input exceeds 4046 (16 are left at one token per
\* character), and no more of them than needed.
C16_LongConversationFits ==
    (Returned /\ OnLongConversation) =>
        /\ targetTokens = 4046
        /\ TripleEstimate <= targetTokens
        /\ system = given.system /\ prompt = given.prompt
        /\ IsSuffix(history, given.history)
        /\ estimator.throws => GivenEstimate = 2650 /\ Len(history) = 50
        /\ (~estimator.throws /\ estimator.density >= CharsPerToken) => Len(history) = 50
        /\ (~estimator.throws /\ estimator.density = 1) => Len(history) = 16
        /\ Len(history) < 50 =>
            estimateTokens(MessagesForEstimation(system,
                               SubSeq(given.history, 50 - Len(history), 50), prompt),
                           estimator) > targetTokens

\* the long conversation returned whole under the fallback estimate
C16_Witness ==
    /\ Returned /\ OnLongConversation
    /\ estimator.throws
    /\ Len(history) = 50

-----------------------------------------------------------------------------
(* Properties of the context update *)

Keys(obj) == {obj.m[n].k : n \in DOMAIN obj.m}

\* deep equality of two contexts: both null, or objects with the same keys
\* and the same value at each key
DeepEqual(a, b) ==
    /\ a.t = b.t
    /\ a.t = "obj" =>
        /\ Keys(a) = Keys(b)
        /\ \A key \in Keys(a) : Member(a, key) = Member(b, key)

AssistantWrites == {n \in DOMAIN writes : writes[n].role = "assistant"}

\* no error reached the catch block of the turn
NoHandlerError == \A n \in DOMAIN errors : errors[n].where # "handler"

\* C11: when the context update of a turn fails (the request of
\* extractContext fails, or its answer is no JSON object), the context stored
\* with the assistant message of the turn is deep-equal to the context the
\* turn started with, and no error of the context update reaches the catch
\* block of the turn.
C11_FailedUpdateKeepsContext ==
    (tpc = "closed" /\ turn.extraction = "failed") =>
        /\ \A n \in AssistantWrites : DeepEqual(writes[n].context, turn.context)
        /\ NoHandlerError

\* the same for a turn that started with a context object
TurnFailedUpdateKeepsContextObject ==
    (tpc = "closed" /\ turn.extraction = "failed" /\ turn.context.t = "obj") =>
        /\ \A n \in AssistantWrites : DeepEqual(writes[n].context, turn.context)
        /\ NoHandlerError

\* the same for sendMessage (lines 289-313), which updates the context only
\* when there is one
SendFailedUpdateKeepsContext ==
    (spc \in {"returned", "threw"} /\ locals # <<>> /\ locals.extraction = "failed") =>
        /\ \A n \in AssistantWrites : DeepEqual(writes[n].context, locals.context)
        /\ spc = "threw" => thrown = Wrapped(<<"create failed">>)

-----------------------------------------------------------------------------
(* Properties of the turn *)

\* the failures of the tool check and of the streaming call that are failures
\* of model resolution, of the transport or of the provider's HTTP answer
TerminalKinds == {"resolution", "http", "transport"}

ProviderFailures ==
    {n \in DOMAIN errors :
        errors[n].where \in {"toolCheck", "handler"} /\ errors[n].kind \in TerminalKinds}

\* the caller has received the error event of the catch block
HasErrorEvent ==
    \E n \in DOMAIN sse, k \in DOMAIN errors : sse[n] = TurnErrorEvent(errors[k].message)

\* C12: in a turn of handleAiMessage, once the tool check or the streaming
\* call has failed in model resolution, in the transport or with an HTTP
\* error, no further provider request is made, the caller has received an
\* error event and the response is closed.
C12_ProviderFailureIsTerminal ==
    \A n \in ProviderFailures :
        /\ Len(http) = errors[n].requests
        /\ HasErrorEvent
        /\ tpc = "closed" /\ ended > 0

\* a tool call of the turn failed: the caller got a tool event with an error
ToolCallFailed == \E n \in DOMAIN sse : sse[n].type = "tool" /\ sse[n].data.status = "error"

ContextUpdateFailed == turn.extraction = "failed"

StreamingCallIssued == \E n \in DOMAIN http : http[n].stream

\* the complete event of the end of the stream
HasFinishedEvent ==
    \E n \in DOMAIN sse : sse[n].type = "complete" /\ sse[n].message = "Provider finished"

\* C13: in a turn of handleAiMessage in which a tool call or the context
\* update failed, the streaming call has been issued, and when the stream has
\* ended and the response is closed the caller has the complete event and
\* the response was ended once, by onComplete: no error reached the catch
\* block of the turn and no error event of it was sent.
C13_SoftFailuresDoNotFailTurn ==
    (ToolCallFailed \/ ContextUpdateFailed) =>
        /\ StreamingCallIssued
        /\ (tpc = "closed" /\ streamState = "ended") =>
            /\ HasFinishedEvent
            /\ NoHandlerError /\ ~HasErrorEvent
            /\ ended = 1

\* a closed turn in which a tool call failed and the context update failed
C13_Witness ==
    /\ tpc = "closed" /\ streamState = "ended"
    /\ ToolCallFailed /\ ContextUpdateFailed
    /\ HasFinishedEvent

-----------------------------------------------------------------------------
(* Properties of sendMessage *)

UnknownModel == data.model \notin allModels
MissingCredential == ~UnknownModel /\ ProviderOf(data.model) \notin env.credentials

\* C14: a sendMessage call whose model is in none of the model tables, or
\* whose provider has no credential configured, ends by throwing an error
\* (for a call that has its model and its prompt, the error of the
\* resolution), and it issues no provider request and creates no message.
C14_UnresolvedModelFailsCleanly ==
    (spc # "enter" /\ (UnknownModel \/ MissingCredential)) =>
        /\ spc = "threw" /\ thrown # <<>>
        /\ (data.model # "" /\ data.prompt # <<>> /\ UnknownModel) =>
            thrown = Wrapped(<<"Model info not found for: ", data.model>>)
        /\ (data.prompt # <<>> /\ MissingCredential) =>
            thrown = Wrapped(<<"Auth token not found for provider: ",
                               ProviderOf(data.model)>>)
        /\ http = <<>>
        /\ writes = <<>>

\* a call that names a known model whose provider has no credential, with
\* the ids that would make it load and store messages, has thrown
C14_Witness ==
    /\ spc = "threw"
    /\ MissingCredential
    /\ data.prompt # <<>> /\ data.idChat /\ data.userId

-----------------------------------------------------------------------------
(* Properties of two concurrent streams *)

\* the call processed alone: the same chunks, up to where the call is
RECURSIVE AloneAfter(_, _)
AloneAfter(c, k) ==
    IF k = 0 THEN PairCall(c.chunks, c.provider) ELSE Deliver(AloneAfter(c, k - 1))

Alone(c) ==
    IF c.state = "ended" THEN EndCall(AloneAfter(c, c.delivered))
    ELSE IF c.state = "errored" THEN ErrorCall(AloneAfter(c, c.delivered))
    ELSE AloneAfter(c, c.delivered)

\* C17: of two processStreamingResponse calls whose 'data' events interleave
\* in any order, each has at every moment, and at its end, the events, the
\* buffers, the fullMessage and the onComplete argument it has when its
\* chunks are processed alone.
C17_CallsDoNotInterfere ==
    \A n \in DOMAIN pair.calls : pair.calls[n] = Alone(pair.calls[n])

\* two streams that each need their buffer have ended, the chunks of the
\* second delivered between the chunks of the first
C17_Witness ==
    /\ pair.order = <<1, 2, 1, 2>>
    /\ \A n \in DOMAIN pair.calls :
        /\ pair.calls[n].chunks = ChunkedBroken
        /\ pair.calls[n].provider = "openai"
        /\ pair.calls[n].state = "ended"
        /\ pair.calls[n].locals.fullMessage = <<"a">>

-----------------------------------------------------------------------------
(* Properties of the context merge *)

\* the context stored with the assistant message of the call
StoredContext == writes[Len(writes)].context

\* C18: when sendMessage has merged the updates extractContext returned into
\* the context, every key the context had is in the stored context with the
\* value it had, and every key of the updates that is new is in it with the
\* value of the update.
C18_MergeKeepsExistingValues ==
    (spc = "returned" /\ locals.extraction = "done" /\ writes # <<>>) =>
        /\ \A key \in Keys(locals.context) :
            /\ key \in Keys(StoredContext)
            /\ Member(StoredContext, key) = Member(locals.context, key)
        /\ \A key \in Keys(locals.updates) \ Keys(locals.context) :
            /\ key \in Keys(StoredContext)
            /\ Member(StoredContext, key) = Member(locals.updates, key)

\* what the merge does: the keys of both, the value of the update where it
\* has the key
MergeOverwrites ==
    (spc = "returned" /\ locals.extraction = "done" /\ writes # <<>>) =>
        /\ Keys(StoredContext) = Keys(locals.context) \cup Keys(locals.updates)
        /\ \A key \in Keys(locals.updates) :
            Member(StoredContext, key) = Member(locals.updates, key)
        /\ \A key \in Keys(locals.context) \ Keys(locals.updates) :
            Member(StoredContext, key) = Member(locals.context, key)

-----------------------------------------------------------------------------
(* Properties of the argument injection *)

\* the context of the call holds an idProject
AmbientProject == Truthy(context) /\ Truthy(Member(context, KeyIdProject))

\* the parsed arguments of the call an executor invocation was made for
ParsedArgs(e) == JsonParse(toolCalls[e.call].function.arguments).v

HasKey(obj, key) == obj.t = "obj" /\ key \in Keys(obj)

\* the values of all keys but projectId are those of the parsed arguments
OthersKept(e) ==
    \A key \in Keys(ParsedArgs(e)) \ {KeyProjectId} :
        Member(e.args, key) = Member(ParsedArgs(e), key)

\* C19 as stated: with an idProject in the context, the executor of a
\* project-scoped tool whose arguments have no projectId key receives the
\* idProject of the context as projectId; arguments that have a projectId key
\* are passed unchanged; and the arguments of a tool outside the injection
\* rules are passed unchanged.
C19_ProjectIdInjectedWhenAbsent ==
    AmbientProject =>
        \A n \in DOMAIN executions :
            /\ (executions[n].name \in ProjectTools
                    /\ ~HasKey(ParsedArgs(executions[n]), KeyProjectId)) =>
                /\ Member(executions[n].args, KeyProjectId) = Member(context, KeyIdProject)
                /\ OthersKept(executions[n])
            /\ (executions[n].name \in ProjectTools
                    /\ HasKey(ParsedArgs(executions[n]), KeyProjectId)) =>
                executions[n].args = ParsedArgs(executions[n])
            /\ executions[n].name \notin ProjectTools \cup {"createFoundryProject"} =>
                executions[n].args = ParsedArgs(executions[n])

\* C19 amended: with an idProject in the context, the executor of a
\* project-scoped tool whose arguments have no projectId, or a falsy one such
\* as the empty string, receives the idProject of the context as projectId
\* and the other arguments as they were; arguments with a truthy projectId
\* are passed unchanged; and the arguments of a tool outside the injection
\* rules are passed unchanged.
C19_ProjectIdInjectedWhenFalsy ==
    AmbientProject =>
        \A n \in DOMAIN executions :
            /\ (executions[n].name \in ProjectTools
                    /\ ~Truthy(Member(ParsedArgs(executions[n]), KeyProjectId))) =>
                /\ Member(executions[n].args, KeyProjectId) = Member(context, KeyIdProject)
                /\ OthersKept(executions[n])
            /\ (executions[n].name \in ProjectTools
                    /\ Truthy(Member(ParsedArgs(executions[n]), KeyProjectId))) =>
                executions[n].args = ParsedArgs(executions[n])
            /\ executions[n].name \notin ProjectTools \cup {"createFoundryProject"} =>
                executions[n].args = ParsedArgs(executions[n])

\* a call that returned after running a project-scoped tool without
\* projectId, one with a projectId, and a tool outside the rules
C19_Witness ==
    /\ toolState = "returned"
    /\ AmbientProject
    /\ Len(executions) = 3
    /\ executions[1].name = "createSmartContract"
    /\ ~HasKey(ParsedArgs(executions[1]), KeyProjectId)
    /\ executions[2].name = "createSmartContract"
    /\ Truthy(Member(ParsedArgs(executions[2]), KeyProjectId))
    /\ executions[3].name = "webSearch"

-----------------------------------------------------------------------------
(* Properties of the provider request *)

\* sendMessage waits for the response of a request the provider will not
\* answer
Stalled == spc \in {"await", "awaitExtract"} /\ vendor = "stalls"

\* C20: a sendMessage call whose provider request is never answered does not
\* wait forever: the request fails at its deadline, and the call ends by
\* throwing or, for the request of extractContext, by returning.
C20_StalledRequestEnds == Stalled ~> spc \in {"returned", "threw"}

-----------------------------------------------------------------------------
(* Properties of the providers' streams *)

\* a stream of well-formed content units of the provider, each on a line of
\* its own: the units of perplexity and groq have the form of openai's
WellFormedStream(p) == IF p = "google" THEN WireGoogle ELSE WireTwoUnits

\* the text its units carry
WellFormedText(p) == IF p = "google" THEN <<"a">> ELSE <<"a", "b">>

\* the stream was delivered whole in one 'data' event and has ended
DeliveredWhole == streamState = "ended" /\ nchunks = 1

\* C21: for each of the five providers, a stream of well-formed content units
\* of the provider, delivered whole, gives a content event for each unit and
\* a fullMessage that is the text of the units.
C21_EveryProviderEmitsContent ==
    (DeliveredWhole /\ wire = WellFormedStream(provider)) =>
        /\ ContentText(sse, Len(sse)) = WellFormedText(provider)
        /\ \A n \in DOMAIN ContentEvents(sse) : ContentEvents(sse)[n].type = provider
        /\ fullMessage = WellFormedText(provider)

\* what the code does: content only for openai and openrouter
OnlyTwoProvidersEmitContent ==
    (DeliveredWhole /\ wire = WellFormedStream(provider)) =>
        IF Parsed
        THEN fullMessage = WellFormedText(provider)
                /\ ContentText(sse, Len(sse)) = WellFormedText(provider)
        ELSE fullMessage = <<>> /\ ContentEvents(sse) = <<>>

-----------------------------------------------------------------------------
(* Properties of the tool results of a turn *)

IsToolEvent(e) == e.type = "tool"

\* the results of the tool calls of the turn, in call order, as the caller
\* got them in tool events
ToolEventResults == [n \in DOMAIN SelectSeq(sse, IsToolEvent) |->
                        SelectSeq(sse, IsToolEvent)[n].data]

\* tr has exactly one entry per tool call, with the result of that call
OneEntryPerCall(tr) ==
    /\ Cardinality(DOMAIN tr) = Len(ToolEventResults)
    /\ \A n \in DOMAIN ToolEventResults :
        /\ ToolEventResults[n].name \in DOMAIN tr
        /\ tr[ToolEventResults[n].name] = ResultValue(ToolEventResults[n])

\* C22: the toolResults of the final complete event of a turn, and those
\* stored with its assistant message, have exactly one entry for each tool
\* call executed in the turn, holding the result of that call, also when two
\* calls name the same tool.
C22_ToolResultsOnePerCall ==
    /\ \A n \in DOMAIN sse :
        (IsComplete(sse[n]) /\ "toolResults" \in DOMAIN sse[n]) =>
            OneEntryPerCall(sse[n].toolResults)
    /\ \A n \in AssistantWrites : OneEntryPerCall(writes[n].toolResults)

\* what the code does: one entry per tool name, with the result of the last
\* call of that name
ToolResultsByName(tr) ==
    /\ DOMAIN tr = {ToolEventResults[n].name : n \in DOMAIN ToolEventResults}
    /\ \A n \in DOMAIN ToolEventResults :
        (\A k \in DOMAIN ToolEventResults :
            ToolEventResults[k].name = ToolEventResults[n].name => k <= n) =>
                tr[ToolEventResults[n].name] = ResultValue(ToolEventResults[n])

ToolResultsLastOfEachName ==
    /\ \A n \in DOMAIN sse :
        (IsComplete(sse[n]) /\ "toolResults" \in DOMAIN sse[n]) =>
            ToolResultsByName(sse[n].toolResults)
    /\ \A n \in AssistantWrites : ToolResultsByName(writes[n].toolResults)

-----------------------------------------------------------------------------
(* Properties of the token budget *)

\* the tokens of the prompt of a request body, as estimateTokens counts them
RequestPromptTokens(request) == estimateTokens(request.messages, estimator)

\* C23: in every request body sendMessage builds, the estimated tokens of the
\* messages plus max_tokens are at most the context window of the model,
\* whether max_tokens was given by the caller, computed, or set for the JSON
\* response format.
C23_RequestWithinContextWindow ==
    \A n \in DOMAIN http :
        RequestPromptTokens(http[n]) + http[n].max_tokens <= contextWindow

\* what holds: a computed max_tokens above the minimum fits the window
ComputedMaxTokensFits ==
    \A n \in DOMAIN http :
        (data.responseFormat # "json_object" /\ data.max_tokens = 0
            /\ http[n].max_tokens # MinimumMaxTokens) =>
                RequestPromptTokens(http[n]) + http[n].max_tokens
                    = contextWindow - MaxTokensBuffer

-----------------------------------------------------------------------------
(* Properties of the end of the response of a turn *)

\* C24: in every turn, whether the stream delivered a message, delivered
\* none, failed, or the turn failed before streaming, the response has been
\* ended exactly once when the turn is over; no event is written after the
\* end, the turn being over once the response is ended.
C24_ResponseEndedOnce == tpc = "closed" => ended = 1

\* what holds: the response is ended once unless the stream failed, and
\* twice when it did
EndedTwiceOnStreamError ==
    tpc = "closed" => ended = (IF streamState = "errored" THEN 2 ELSE 1)

\* once the response has been ended no event is written
NoEventAfterEnd == [][ended > 0 => sse' = sse]_vars

-----------------------------------------------------------------------------
(* Properties of getHistory *)

\* the stored messages a getHistory call fetches: the Take most recent
FetchedRows == {n \in DOMAIN writes : n > Len(writes) - Take}

\* those of them that carry a context
CarryingContext == {n \in FetchedRows : Truthy(writes[n].context)}

Newest(rows) == CHOOSE n \in rows : \A k \in rows : k <= n
Oldest(rows) == CHOOSE n \in rows : \A k \in rows : n <= k

\* C25: the context getHistory returns is that of the most recent message,
\* among those fetched, that carries a context, and it is null only when
\* none of them carries one.
C25_ContextOfMostRecentMessage ==
    spc = "fetched" =>
        IF CarryingContext = {} THEN returned.context = JNull
        ELSE returned.context = writes[Newest(CarryingContext)].context

\* what holds: the context is that of the oldest fetched message carrying one
ContextOfOldestFetchedMessage ==
    spc = "fetched" =>
        IF CarryingContext = {} THEN returned.context = JNull
        ELSE returned.context = writes[Oldest(CarryingContext)].context

\* the messages returned are the fetched ones, the oldest first
HistoryOldestFirst ==
    spc = "fetched" =>
        /\ Len(returned.messages) = Cardinality(FetchedRows)
        /\ \A n \in DOMAIN returned.messages :
            returned.messages[n].content
                = writes[Len(writes) - Len(returned.messages) + n].text

-----------------------------------------------------------------------------
(* Properties of the tool events of a turn *)

ToolEventsSent == SelectSeq(sse, IsToolEvent)

\* the events of the stream: content events and complete events
IsStreamEvent(e) == IsContent(e) \/ IsComplete(e)

\* C26: in a turn there is exactly one tool event for each tool call the
\* tool check returned, the n-th event being that of the n-th call, and every
\* tool event comes before the first content event and before any complete
\* event of the turn.
C26_ToolEventsInCallOrderBeforeStream ==
    tpc \notin {"idle", "enter", "awaitToolCheck"} =>
        /\ Len(ToolEventsSent) = Len(turn.toolCalls)
        /\ \A n \in DOMAIN ToolEventsSent :
            ToolEventsSent[n].data.name = turn.toolCalls[n].function.name
        /\ \A i \in DOMAIN sse, j \in DOMAIN sse :
            (IsToolEvent(sse[j]) /\ ~IsToolEvent(sse[i]) /\ IsStreamEvent(sse[i])) => j < i

\* a finished turn with two tool calls of different tools, content events
\* and a complete event
C26_Witness ==
    /\ tpc = "closed"
    /\ Len(turn.toolCalls) = 2
    /\ turn.toolCalls[1].function.name # turn.toolCalls[2].function.name
    /\ Len(ToolEventsSent) = 2
    /\ \E i \in DOMAIN sse : IsContent(sse[i]) /\ ~IsToolEvent(sse[i])
    /\ \E i \in DOMAIN sse : IsComplete(sse[i])

-----------------------------------------------------------------------------
(* Properties of the stored assistant message of a turn *)

\* the provider stream has ended and its complete event was sent
StreamCompleted ==
    /\ streamState = "ended"
    /\ \E n \in DOMAIN sse : IsComplete(sse[n]) /\ HasFullMessage(sse[n])

\* C27: in a turn the assistant message is stored at most once, only after
\* the provider stream has ended and its complete event was sent, and never
\* when the accumulated fullMessage is empty or the stream ended with an
\* error.
C27_AssistantMessageStoredOnce ==
    /\ Cardinality(AssistantWrites) <= 1
    /\ \A n \in AssistantWrites :
        /\ StreamCompleted
        /\ fullMessage # <<>>
        /\ writes[n].text = fullMessage
    /\ (streamState = "errored" \/ (streamState = "ended" /\ fullMessage = <<>>)) =>
            AssistantWrites = {}

\* a finished turn whose assistant message is stored
C27_Witness ==
    /\ tpc = "closed"
    /\ Cardinality(AssistantWrites) = 1
    /\ StreamCompleted

\* finished turns whose stream gave no text, and whose stream failed
EmptyStreamClosed == tpc = "closed" /\ streamState = "ended" /\ fullMessage = <<>>
FailedStreamClosed == tpc = "closed" /\ streamState = "errored" /\ nchunks > 0

-----------------------------------------------------------------------------
(* Properties of the userId of createFoundryProject *)

\* the invocations of the createFoundryProject executor in the turn
FoundryInvocations ==
    {n \in DOMAIN turn.executions : turn.executions[n].name = "createFoundryProject"}

\* C28: whenever the createFoundryProject executor is invoked in a turn, the
\* userId of the arguments it receives is the id of the authenticated user,
\* whatever userId the model put into the arguments of the tool call.
C28_ExecutorGetsAuthenticatedUser ==
    tpc # "idle" =>
        \A n \in FoundryInvocations :
            Member(turn.executions[n].args, KeyUserId) = TurnUserId

\* what holds: arguments that are an object carry the id of the authenticated
\* user, and no arguments carry another user's
ObjectArgumentsGetAuthenticatedUser ==
    tpc # "idle" =>
        \A n \in FoundryInvocations :
            /\ turn.executions[n].args.t = "obj" =>
                    Member(turn.executions[n].args, KeyUserId) = TurnUserId
            /\ Member(turn.executions[n].args, KeyUserId) \in {TurnUserId, JNull}

\* the executor ran on arguments in which the model had named another user
OtherUserOverwritten ==
    \E n \in FoundryInvocations :
        /\ Member(JsonParse(turn.toolCalls[turn.executions[n].call].function.arguments).v,
                  KeyUserId) = JStr(<<"u", "2">>)
        /\ Member(turn.executions[n].args, KeyUserId) = TurnUserId

-----------------------------------------------------------------------------
(* Properties of the context-update cycle *)

IsExtractRequest(r) == r.model = ExtractModel /\ Len(r.history) = 2 /\ r.tools = <<>>

\* the requests of extractContext among those issued
ExtractRequests(requests) == SelectSeq(requests, IsExtractRequest)

\* the sendMessage call of extractContext issues its one request and nothing
\* else: no request of a further extractContext, no tool execution, no write
InnerCallIsPlain ==
    data = ExtractCall =>
        /\ Len(http) <= 1
        /\ writes = <<>>
        /\ spc # "awaitExtract"
        /\ locals # <<>> => (locals.extraction = "none" /\ locals.toolResults = <<>>)

\* a sendMessage call makes at most one request of extractContext beside its
\* own: the extraction is not nested
AtMostOneExtraction == Len(http) <= 2 /\ Len(ExtractRequests(http)) <= 1

\* C29: the context-update recursion is bounded.  The sendMessage call that
\* extractContext issues triggers no further extractContext call, no tool
\* execution and no write, so that a call performs at most one nested
\* extraction, and a call that has started its extraction always comes to
\* its end.
C29_ExtractionCycleEnds ==
    /\ [](InnerCallIsPlain /\ AtMostOneExtraction)
    /\ (spc = "awaitExtract") ~> (spc \in {"returned", "threw"})

\* what holds: the recursion has depth one, and an extraction whose request
\* is answered comes to its end
RecursionDepthOne == InnerCallIsPlain /\ AtMostOneExtraction
AnsweredExtractionEnds ==
    (spc = "awaitExtract" /\ vendor = "answers") ~> (spc \in {"returned", "threw"})

\* the inner call has returned what the provider answered
InnerCallReturned == data = ExtractCall /\ spc = "returned" /\ Len(http) = 1

\* a turn issues at most one request of extractContext
TurnExtractsAtMostOnce ==
    tpc # "idle" =>
        Cardinality({n \in DOMAIN http :
                        http[n].model = ExtractModel /\ Len(http[n].history) = 2
                            /\ http[n].history[1].role = "assistant"}) <= 1

-----------------------------------------------------------------------------
(* Properties of the parameters a provider does not support *)

\* a call to perplexity or groq that is given tools or a response format
UnsupportedGiven ==
    /\ data.model \in perplexityModels \cup groqModels
    /\ data.tools # <<>> \/ data.responseFormat # "none"

\* the same call without them
WithoutUnsupported == [data EXCEPT !.tools = <<>>, !.responseFormat = "none"]

\* how far that call gets: to its request, or to an error before it
PlainCall == SendUntilPost(SendState("enter", <<>>, <<>>, <<>>, <<>>, <<>>),
                           WithoutUnsupported, env)

\* the errors of a call whose request was issued: the request failed, or the
\* store rejected the message
LateErrors ==
    {RequestError(HttpError), RequestError(NoResponse), Wrapped(<<"create failed">>)}

GroqCallReturned ==
    /\ data.model \in groqModels
    /\ data.tools # <<>> /\ data.responseFormat # "none"
    /\ spc = "returned"

=============================================================================
